---- MODULE Spec2Model ----
(***************************************************************************)
(* A model of the message layer of Mute: the in-memory key store           *)
(* (package memstore), the session state (package session) and, on top of  *)
(* them, the encryption and decryption engine.                             *)
(***************************************************************************)
EXTENDS Integers, Sequences, FiniteSets, TLC

(***************************************************************************)
(* Bounds of the model.                                                    *)
(***************************************************************************)
\* longest key chain handed to StoreSession by the store-level callers
MaxChain == 2

(***************************************************************************)
(* Program constants.                                                      *)
(***************************************************************************)
NumOfFutureKeys == 50
Version == 1

(***************************************************************************)
(* Errors.                                                                 *)
(***************************************************************************)
NoErr == "nil"
ErrMessageKeyUsed == "session: message key used"
ErrNoSession == "memstore: no session found"
ErrOutOfBounds == "memstore: message index out of bounds"
ErrCannotDecode == "memstore: cannot decode key"
ErrWrongLength == "memstore: key has wrong length"
ErrNotMapped == "identity: not mapped"
ErrLenMismatch == "memstore: len(send) != len(recv)"
ErrNoKeyInit == "session: no KeyInit"
ErrNoKeyEntry == "memstore: could not find key entry"

(***************************************************************************)
(* Identities and key strings.                                             *)
(***************************************************************************)
Alice == "alice@mute.berlin"
Bob == "bob@mute.berlin"
\* an identity that is not in mapped form (upper case)
Unmapped == "Eve@mute.berlin"

\* identity.IsMapped: nil for an identity in mapped form, an error otherwise
IsMapped(id) == IF id = Unmapped THEN ErrNotMapped ELSE NoErr

\* base64 strings that do not decode, and strings that decode to fewer than
\* 64 bytes; every other non-empty key string of the model is the encoding
\* of a 64 byte message key
Undecodable == {"!!"}
ShortKeys == {"QUJD"}

\* base64.Decode followed by copy(messageKey[:], k): the error of the
\* decoding, and the number of bytes copied into the [64]byte array
Base64DecodeErr(s) == s \in Undecodable
CopiedLen(s) == IF s \in ShortKeys THEN 3 ELSE 64

(***************************************************************************)
(* Go maps: functions with a finite, growing domain.                       *)
(***************************************************************************)
EmptyMap == <<>>
Has(m, k) == k \in DOMAIN m
Put(m, k, v) == [x \in (DOMAIN m) \cup {k} |-> IF x = k THEN v ELSE m[x]]

(***************************************************************************)
(* session.State and uid.KeyEntry.  A *uid.KeyEntry is the entry or nil.   *)
(***************************************************************************)
\* a key pair is numbered; HASH is the hash of its public key
KeyHash(n) == "H" \o ToString(n)
KeyEntry(n) == [isNil |-> FALSE, HASH |-> KeyHash(n), key |-> n]
NilKeyEntry == [isNil |-> TRUE, HASH |-> "", key |-> 0]

NilState == [isNil |-> TRUE]

State(ssc, smc, mrc, rt, ssp, nssp, nrsps, nym, kis) ==
    [isNil |-> FALSE,
     SenderSessionCount |-> ssc,
     SenderMessageCount |-> smc,
     MaxRecipientCount |-> mrc,
     RecipientTemp |-> rt,
     SenderSessionPub |-> ssp,
     NextSenderSessionPub |-> nssp,
     NextRecipientSessionPubSeen |-> nrsps,
     NymAddress |-> nym,
     KeyInitSession |-> kis]

(***************************************************************************)
(* MemStore.                                                               *)
(***************************************************************************)
memSession(rootKeyHash, chainKey, send, recv) ==
    [rootKeyHash |-> rootKeyHash, chainKey |-> chainKey,
     send |-> send, recv |-> recv]

\* memstore.New
New ==
    [privateKeyEntryMap |-> EmptyMap,
     publicKeyEntryMap |-> EmptyMap,
     sessionStates |-> EmptyMap,
     sessions |-> EmptyMap,
     senderSessionPubHash |-> ""]

\* the keys of the two maps
StateIndex(myID, contactID) == myID \o "@" \o contactID
SessionIndex(myID, contactID, senderSessionPubHash) ==
    myID \o "@" \o contactID \o "@" \o senderSessionPubHash

\* the result of a method: the store after the call, the error and the value
Result(store, err, val) == [ms |-> store, err |-> err, val |-> val]

SenderSessionPubHash(store) == store.senderSessionPubHash

AddPrivateKeyEntry(store, ke) ==
    [store EXCEPT !.privateKeyEntryMap = Put(@, ke.HASH, ke)]

AddPublicKeyEntry(store, identity, ke) ==
    [store EXCEPT !.publicKeyEntryMap = Put(@, identity, ke)]

GetSessionState(store, myID, contactID) ==
    LET k == StateIndex(myID, contactID)
    IN  Result(store, NoErr,
               IF Has(store.sessionStates, k) THEN store.sessionStates[k]
               ELSE NilState)

\* SetSessionState that does not store the state
SetSessionStateNot(store, myID, contactID, sessionState) ==
    Result(store, NoErr, "")

SetSessionState(store, myID, contactID, sessionState) ==
    Result([store EXCEPT !.sessionStates =
                Put(@, StateIndex(myID, contactID), sessionState)],
           NoErr, "")

\* StoreSession that records the hash before it checks its arguments
StoreSessionHashFirst(store, myID, contactID, senderSessionPubHash, rootKeyHash, chainKey, send, recv) ==
    IF IsMapped(myID) # NoErr
    THEN Result([store EXCEPT !.senderSessionPubHash = senderSessionPubHash],
                IsMapped(myID), "")
    ELSE IF IsMapped(contactID) # NoErr
    THEN Result([store EXCEPT !.senderSessionPubHash = senderSessionPubHash],
                IsMapped(contactID), "")
    ELSE IF Len(send) # Len(recv)
    THEN Result([store EXCEPT !.senderSessionPubHash = senderSessionPubHash],
                ErrLenMismatch, "")
    ELSE Result([store EXCEPT
                   !.sessions =
                       Put(@, SessionIndex(myID, contactID, senderSessionPubHash),
                           memSession(rootKeyHash, chainKey, send, recv)),
                   !.senderSessionPubHash = senderSessionPubHash],
                NoErr, "")

StoreSession(store, myID, contactID, senderSessionPubHash, rootKeyHash, chainKey, send, recv) ==
    IF IsMapped(myID) # NoErr THEN Result(store, IsMapped(myID), "")
    ELSE IF IsMapped(contactID) # NoErr
    THEN Result(store, IsMapped(contactID), "")
    ELSE IF Len(send) # Len(recv) THEN Result(store, ErrLenMismatch, "")
    ELSE Result([store EXCEPT
                   !.sessions =
                       Put(@, SessionIndex(myID, contactID, senderSessionPubHash),
                           memSession(rootKeyHash, chainKey, send, recv)),
                   !.senderSessionPubHash = senderSessionPubHash],
                NoErr, "")

HasSession(store, myID, contactID, senderSessionPubHash) ==
    Has(store.sessions, SessionIndex(myID, contactID, senderSessionPubHash))

GetPrivateKeyEntry(store, pubKeyHash) ==
    IF Has(store.privateKeyEntryMap, pubKeyHash)
    THEN Result(store, NoErr, store.privateKeyEntryMap[pubKeyHash])
    ELSE Result(store, ErrNoKeyEntry, NilKeyEntry)

GetPublicKeyEntry(store, identity) ==
    IF Has(store.publicKeyEntryMap, identity)
    THEN Result(store, NoErr, store.publicKeyEntryMap[identity])
    ELSE Result(store, ErrNoKeyInit, NilKeyEntry)

NumMessageKeys(store, myID, contactID, senderSessionPubHash) ==
    LET index == SessionIndex(myID, contactID, senderSessionPubHash)
    IN  IF ~Has(store.sessions, index) THEN Result(store, ErrNoSession, 0)
        ELSE Result(store, NoErr, Len(store.sessions[index].send))

\* GetMessageKey reporting an index beyond the chain as a used key
GetMessageKeyOneError(store, myID, contactID, senderSessionPubHash, sender, msgIndex) ==
    LET index == SessionIndex(myID, contactID, senderSessionPubHash)
    IN  IF ~Has(store.sessions, index) THEN Result(store, ErrNoSession, "")
        ELSE LET s == store.sessions[index]
                 key == IF msgIndex >= Len(s.send) THEN ""
                        ELSE IF sender THEN s.send[msgIndex + 1]
                        ELSE s.recv[msgIndex + 1]
             IN  IF key = "" THEN Result(store, ErrMessageKeyUsed, "")
                 ELSE IF Base64DecodeErr(key)
                 THEN Result(store, ErrCannotDecode, "")
                 ELSE IF CopiedLen(key) # 64
                 THEN Result(store, ErrWrongLength, "")
                 ELSE Result(store, NoErr, key)

\* GetMessageKey reading the send chain whatever the sender flag
GetMessageKeySendOnly(store, myID, contactID, senderSessionPubHash, sender, msgIndex) ==
    LET index == SessionIndex(myID, contactID, senderSessionPubHash)
    IN  IF ~Has(store.sessions, index) THEN Result(store, ErrNoSession, "")
        ELSE LET s == store.sessions[index]
             IN  IF msgIndex >= Len(s.send)
                 THEN Result(store, ErrOutOfBounds, "")
                 ELSE LET key == s.send[msgIndex + 1]
                      IN  IF key = "" THEN Result(store, ErrMessageKeyUsed, "")
                          ELSE IF Base64DecodeErr(key)
                          THEN Result(store, ErrCannotDecode, "")
                          ELSE IF CopiedLen(key) # 64
                          THEN Result(store, ErrWrongLength, "")
                          ELSE Result(store, NoErr, key)

\* msgIndex counts from 0, as in the code; the chains are 1-based sequences
GetMessageKey(store, myID, contactID, senderSessionPubHash, sender, msgIndex) ==
    LET index == SessionIndex(myID, contactID, senderSessionPubHash)
    IN  IF ~Has(store.sessions, index) THEN Result(store, ErrNoSession, "")
        ELSE LET s == store.sessions[index]
             IN  IF msgIndex >= Len(s.send)
                 THEN Result(store, ErrOutOfBounds, "")
                 ELSE LET key == IF sender THEN s.send[msgIndex + 1]
                                 ELSE s.recv[msgIndex + 1]
                      IN  IF key = "" THEN Result(store, ErrMessageKeyUsed, "")
                          ELSE IF Base64DecodeErr(key)
                          THEN Result(store, ErrCannotDecode, "")
                          ELSE IF CopiedLen(key) # 64
                          THEN Result(store, ErrWrongLength, "")
                          ELSE Result(store, NoErr, key)

\* DelMessageKey with the two chains exchanged
DelMessageKeyOtherChain(store, myID, contactID, senderSessionPubHash, sender, msgIndex) ==
    LET index == SessionIndex(myID, contactID, senderSessionPubHash)
    IN  IF ~Has(store.sessions, index) THEN Result(store, ErrNoSession, "")
        ELSE LET s == store.sessions[index]
             IN  IF msgIndex >= Len(s.send)
                 THEN Result(store, ErrOutOfBounds, "")
                 ELSE IF ~sender
                 THEN Result([store EXCEPT
                                !.sessions[index].send[msgIndex + 1] = ""],
                             NoErr, "")
                 ELSE Result([store EXCEPT
                                !.sessions[index].recv[msgIndex + 1] = ""],
                             NoErr, "")

\* DelMessageKey that leaves the key in place
DelMessageKeyNot(store, myID, contactID, senderSessionPubHash, sender, msgIndex) ==
    LET index == SessionIndex(myID, contactID, senderSessionPubHash)
    IN  IF ~Has(store.sessions, index) THEN Result(store, ErrNoSession, "")
        ELSE IF msgIndex >= Len(store.sessions[index].send)
        THEN Result(store, ErrOutOfBounds, "")
        ELSE Result(store, NoErr, "")

DelMessageKey(store, myID, contactID, senderSessionPubHash, sender, msgIndex) ==
    LET index == SessionIndex(myID, contactID, senderSessionPubHash)
    IN  IF ~Has(store.sessions, index) THEN Result(store, ErrNoSession, "")
        ELSE LET s == store.sessions[index]
             IN  IF msgIndex >= Len(s.send)
                 THEN Result(store, ErrOutOfBounds, "")
                 ELSE IF sender
                 THEN Result([store EXCEPT
                                !.sessions[index].send[msgIndex + 1] = ""],
                             NoErr, "")
                 ELSE Result([store EXCEPT
                                !.sessions[index].recv[msgIndex + 1] = ""],
                             NoErr, "")

(***************************************************************************)
(* The encryption and decryption engine (Encrypt, Decrypt), on top of the  *)
(* key store.                                                              *)
(***************************************************************************)
UnencodedMsgSize == 49152
MaxContentLength == 41691
\* header, counters, length field, signature field and MAC
FixedOverhead == UnencodedMsgSize - MaxContentLength
\* length of the base64 encoding of n bytes
Base64Len(n) == 4 * ((n + 2) \div 3)
EncodedMsgSize == Base64Len(UnencodedMsgSize)

ErrReflection == "msg: reflection"
ErrContentTooLarge == "msg: content too large"
ErrNoMatchingIdentity == "msg: no matching identity"
ErrAuthenticationFailed == "msg: authentication failed"
ErrMalformedPadding == "msg: malformed padding"
ErrInvalidSignature == "msg: invalid signature"
ErrWrongVersion == "wrong version"
ErrChainExhausted == "msg: chain exhausted"
\* the outer header ends before its last byte (io.ErrUnexpectedEOF)
ErrShortHeader == "unexpected EOF"

\* a second address of the user of Alice, with the same long-term key
Alias == "alice@mute.one"
\* the long-term key an identity resolves to, and its entry (uid.PubKey)
IdentityKey(id) == CASE id = Bob -> 0 - 2 [] OTHER -> 0 - 1
PubKey(id) == KeyEntry(IdentityKey(id))
\* a reflection check that compares the addresses instead of the keys
SameName(from, to) == from = to
SameIdentity(from, to) == PubKey(from).HASH = PubKey(to).HASH
NymAddress == "undefined"

\* key agreement: both ends derive the same root key from the two session
\* keys, each with its own private key and the public key of the other
RootKeyHash(a, b) ==
    IF a <= b THEN "R" \o ToString(a) \o "." \o ToString(b)
    ELSE "R" \o ToString(b) \o "." \o ToString(a)
ChainKeyOf(root) == "C" \o root
\* the chain of message keys for the messages of the owner of key n
MessageKeys(root, n) ==
    [i \in 1..NumOfFutureKeys |-> root \o ":" \o ToString(n) \o ":" \o ToString(i - 1)]

\* padding to the fixed size, and its removal by the length field
PaddingNone(len) == 0
PaddingLength(len) == MaxContentLength - len
Pad(p) == [len |-> p.len, data |-> p.data, padding |-> PaddingLength(p.len)]
PadOk(c) == c.len + c.padding = MaxContentLength
Unpad(c) == [len |-> c.len, data |-> c.data]
UnencodedSize(c) == FixedOverhead + c.len + c.padding

\* authenticated encryption under a message key
Seal(key, content) == [key |-> key, content |-> content, mac |-> TRUE]
\* an opening that does not check the authentication tag
CanOpenAny(key, body) == body.key = key
CanOpen(key, body) == body.mac /\ body.key = key

\* a verification that accepts every signature
SignatureAny(sig, id, p) == TRUE
\* the signature of the long-term signing key of id over the content digest
NoSignature == [signer |-> "", digest |-> ""]
Sign(id, p) == [signer |-> PubKey(id).HASH, digest |-> p.data]
SignatureOk(sig, id, p) == sig.signer = PubKey(id).HASH /\ sig.digest = p.data

\* no envelope: what a failed Encrypt leaves in the writer
NoEnvelope ==
    [version |-> 0, from |-> "", to |-> "",
     senderSessionPub |-> NilKeyEntry, recipientTempHash |-> "",
     nextSenderSessionPub |-> NilKeyEntry,
     senderSessionCount |-> 0, senderMessageCount |-> 0,
     body |-> [key |-> "", content |-> [len |-> 0, data |-> "", padding |-> 0], mac |-> FALSE],
     sig |-> NoSignature, size |-> 0, truncated |-> FALSE]

Envelope(from, to, ss, body, sig) ==
    [version |-> Version,
     from |-> from,
     to |-> to,
     senderSessionPub |-> ss.SenderSessionPub,
     recipientTempHash |-> ss.RecipientTemp.HASH,
     nextSenderSessionPub |-> ss.NextSenderSessionPub,
     senderSessionCount |-> ss.SenderSessionCount,
     senderMessageCount |-> ss.SenderMessageCount,
     body |-> body,
     sig |-> sig,
     size |-> Base64Len(UnencodedSize(body.content)),
     truncated |-> FALSE]

\* an intermediate result of the session ratchet
Ratchet(store, err, ss, fresh) == [ms |-> store, err |-> err, ss |-> ss, fresh |-> fresh]

\* NoSession -> Active on the first send: the one-time key of the peer, a
\* fresh session key, key agreement, two chains, KeyInitSession = TRUE
StartSession(store, from, to, fresh) ==
    LET pk == GetPublicKeyEntry(store, to)
        own == KeyEntry(fresh)
        root == RootKeyHash(fresh, pk.val.key)
        r == StoreSession(AddPrivateKeyEntry(store, own), from, to, own.HASH, root, ChainKeyOf(root), MessageKeys(root, fresh), MessageKeys(root, pk.val.key))
        ss == State(0, 0, 0, pk.val, own, NilKeyEntry, NilKeyEntry, NymAddress, TRUE)
    IN  IF pk.err # NoErr THEN Ratchet(store, pk.err, NilState, fresh)
        ELSE IF pk.val.HASH = PubKey(to).HASH
        THEN Ratchet(store, ErrReflection, NilState, fresh)
        ELSE IF r.err # NoErr THEN Ratchet(store, r.err, NilState, fresh)
        ELSE Ratchet(SetSessionState(r.ms, from, to, ss).ms, NoErr, ss, fresh + 1)

\* Active -> RotationPending: a fresh key pair is staged
StageNext(store, ss, fresh) ==
    LET next == KeyEntry(fresh)
    IN  Ratchet(AddPrivateKeyEntry(store, next), NoErr, [ss EXCEPT !.NextSenderSessionPub = next], fresh + 1)

\* a rotation that does not carry the message count over
RotatedNoCarry(ss, peer) ==
    [ss EXCEPT !.SenderMessageCount = 0,
               !.MaxRecipientCount = 0,
               !.SenderSessionPub = ss.NextSenderSessionPub,
               !.RecipientTemp = peer,
               !.NextSenderSessionPub = NilKeyEntry,
               !.NextRecipientSessionPubSeen = NilKeyEntry,
               !.KeyInitSession = FALSE]

\* the state after the rotation to the staged key and the peer key
Rotated(ss, peer) ==
    [ss EXCEPT !.SenderSessionCount = @ + ss.SenderMessageCount,
               !.SenderMessageCount = 0,
               !.MaxRecipientCount = 0,
               !.SenderSessionPub = ss.NextSenderSessionPub,
               !.RecipientTemp = peer,
               !.NextSenderSessionPub = NilKeyEntry,
               !.NextRecipientSessionPubSeen = NilKeyEntry,
               !.KeyInitSession = FALSE]

\* RotationPending -> Active on the sending side: the chain is consumed,
\* a key is staged and the peer has published its own
SwitchSession(store, from, to, ss, fresh) ==
    LET own == ss.NextSenderSessionPub
        peer == ss.NextRecipientSessionPubSeen
        root == RootKeyHash(own.key, peer.key)
        r == StoreSession(store, from, to, own.HASH, root, ChainKeyOf(root), MessageKeys(root, own.key), MessageKeys(root, peer.key))
    IN  IF r.err # NoErr THEN Ratchet(store, r.err, ss, fresh)
        ELSE Ratchet(r.ms, NoErr, Rotated(ss, peer), fresh)

\* the session a send uses: established, continued, staged or rotated
CurrentSession(store, from, to, fresh) ==
    LET g == GetSessionState(store, from, to)
    IN  IF g.val.isNil THEN StartSession(store, from, to, fresh)
        ELSE Ratchet(store, NoErr, g.val, fresh)

\* the session a is staged or rotated where the ratchet asks for it
NextSession(from, to, stage, a) ==
    LET n == NumMessageKeys(a.ms, from, to, a.ss.SenderSessionPub.HASH)
        consumed == n.err = NoErr /\ a.ss.SenderMessageCount >= n.val
        \* the safety margin is at least the last key of the chain
        nearEnd == n.err = NoErr /\ a.ss.SenderMessageCount + 1 >= n.val
        staged == ~a.ss.NextSenderSessionPub.isNil
        seen == ~a.ss.NextRecipientSessionPubSeen.isNil
    IN  IF a.err # NoErr THEN a
        ELSE IF consumed /\ staged /\ seen
        THEN SwitchSession(a.ms, from, to, a.ss, a.fresh)
        ELSE IF ~staged /\ (stage \/ seen \/ nearEnd) THEN StageNext(a.ms, a.ss, a.fresh)
        ELSE a

SenderSession(store, from, to, stage, fresh) ==
    NextSession(from, to, stage, CurrentSession(store, from, to, fresh))

\* a send that does not count the message
SentNot(ss) == ss
\* the state after a send
Sent(ss) == [ss EXCEPT !.SenderMessageCount = @ + 1]

EncryptResult(store, err, env, fresh) ==
    [ms |-> store, err |-> err, env |-> env, n |-> IF err = NoErr THEN env.size ELSE 0, fresh |-> fresh]

\* steps 4 to 6 and the side effects, in the session a
EncryptIn(store, from, to, p, sign, fresh, a) ==
    LET hash == a.ss.SenderSessionPub.HASH
        count == a.ss.SenderMessageCount
        k == GetMessageKey(a.ms, from, to, hash, TRUE, count)
        env == Envelope(from, to, a.ss, Seal(k.val, Pad(p)), IF sign THEN Sign(from, p) ELSE NoSignature)
        d == DelMessageKey(a.ms, from, to, hash, TRUE, count)
        w == SetSessionState(d.ms, from, to, Sent(a.ss))
    IN  IF a.err # NoErr THEN EncryptResult(store, a.err, NoEnvelope, fresh)
        ELSE IF k.err # NoErr THEN EncryptResult(store, k.err, NoEnvelope, fresh)
        ELSE IF d.err # NoErr THEN EncryptResult(store, d.err, NoEnvelope, fresh)
        ELSE EncryptResult(w.ms, w.err, env, a.fresh)

\* an Encrypt without the limit on the content length
EncryptAnyLength(store, from, to, p, sign, stage, fresh) ==
    IF SameIdentity(from, to)
    THEN EncryptResult(store, ErrReflection, NoEnvelope, fresh)
    ELSE EncryptIn(store, from, to, p, sign, fresh, SenderSession(store, from, to, stage, fresh))

Encrypt(store, from, to, p, sign, stage, fresh) ==
    IF SameIdentity(from, to)
    THEN EncryptResult(store, ErrReflection, NoEnvelope, fresh)
    ELSE IF p.len > MaxContentLength
    THEN EncryptResult(store, ErrContentTooLarge, NoEnvelope, fresh)
    ELSE EncryptIn(store, from, to, p, sign, fresh, SenderSession(store, from, to, stage, fresh))

\* the session a received envelope belongs to: the stored one, or a new
\* one under the local key the envelope names (the one-time key of a
\* session-establishing message, or the staged key the peer acknowledges)
ReceiverSession(store, me, peer, env) ==
    LET idx == env.recipientTempHash
        g == GetSessionState(store, me, peer)
        pk == GetPrivateKeyEntry(store, idx)
        their == env.senderSessionPub
        root == RootKeyHash(pk.val.key, their.key)
        r == StoreSession(store, me, peer, idx, root, ChainKeyOf(root), MessageKeys(root, pk.val.key), MessageKeys(root, their.key))
        ss == IF g.val.isNil
              THEN State(0, 0, 0, their, pk.val, NilKeyEntry, NilKeyEntry, NymAddress, FALSE)
              ELSE IF g.val.NextSenderSessionPub.HASH = idx THEN Rotated(g.val, their)
              ELSE g.val
    IN  IF HasSession(store, me, peer, idx) THEN Ratchet(store, NoErr, g.val, 0)
        ELSE IF pk.err # NoErr THEN Ratchet(store, pk.err, g.val, 0)
        ELSE IF r.err # NoErr THEN Ratchet(store, r.err, g.val, 0)
        ELSE Ratchet(r.ms, NoErr, ss, 0)

Max(a, b) == IF a >= b THEN a ELSE b

\* the state after a receive: the counters follow the current session
Received(ss, env) ==
    IF ss.isNil THEN ss
    ELSE IF env.senderSessionPub.HASH = ss.RecipientTemp.HASH /\ env.recipientTempHash = ss.SenderSessionPub.HASH
    THEN [ss EXCEPT !.MaxRecipientCount = Max(@, env.senderMessageCount + 1),
                    !.NextRecipientSessionPubSeen = IF env.nextSenderSessionPub.isNil THEN @ ELSE env.nextSenderSessionPub]
    ELSE ss

NoPlaintext == [len |-> 0, data |-> ""]

\* read: whether the call asked the key store for a message key
DecryptResult(store, err, p, sig) == [ms |-> store, err |-> err, p |-> p, sig |-> sig, read |-> TRUE]
DecryptError(store, err) == DecryptResult(store, err, NoPlaintext, NoSignature)
\* a failure before the message key is looked up
Rejected(store, err) == [DecryptError(store, err) EXCEPT !.read = FALSE]

\* steps 4 to 7, in the session a
DecryptIn(store, me, peer, env, a) ==
    LET k == GetMessageKey(a.ms, me, peer, env.recipientTempHash, FALSE, env.senderMessageCount)
        p == Unpad(env.body.content)
        d == DelMessageKey(a.ms, me, peer, env.recipientTempHash, FALSE, env.senderMessageCount)
        w == SetSessionState(d.ms, me, peer, Received(a.ss, env))
    IN  IF a.err # NoErr THEN Rejected(store, a.err)
        ELSE IF k.err = ErrOutOfBounds /\ a.ss.NextSenderSessionPub.isNil
        THEN DecryptError(store, ErrChainExhausted)
        ELSE IF k.err # NoErr THEN DecryptError(store, k.err)
        ELSE IF ~CanOpen(k.val, env.body) THEN DecryptError(store, ErrAuthenticationFailed)
        ELSE IF ~PadOk(env.body.content) THEN DecryptError(store, ErrMalformedPadding)
        ELSE IF env.sig # NoSignature /\ ~SignatureOk(env.sig, peer, p)
        THEN DecryptError(store, ErrInvalidSignature)
        ELSE IF d.err # NoErr THEN DecryptError(store, d.err)
        ELSE DecryptResult(w.ms, w.err, p, env.sig)

Decrypt(store, identities, env) ==
    IF env.to \notin identities THEN Rejected(store, ErrNoMatchingIdentity)
    ELSE DecryptIn(store, env.to, env.from, env, ReceiverSession(store, env.to, env.from, env))

\* ReadFirstOuterHeader: the version of the envelope, or the error of a
\* header that is cut short
ReadFirstOuterHeader(env) ==
    IF env.truncated THEN [version |-> 0, err |-> ErrShortHeader]
    ELSE [version |-> env.version, err |-> NoErr]

\* a caller that hands every envelope to Decrypt
decryptUnchecked(store, identities, env) == Decrypt(store, identities, env)

\* the caller of Decrypt: it reads the first outer header and checks the
\* version before it calls Decrypt with the key store
decrypt(store, identities, env) ==
    LET h == ReadFirstOuterHeader(env)
    IN  IF h.err # NoErr THEN Rejected(store, h.err)
        ELSE IF h.version # Version THEN Rejected(store, ErrWrongVersion)
        ELSE Decrypt(store, identities, env)

(***************************************************************************)
(* The key store driven by its callers, one method call per step.          *)
(***************************************************************************)
VARIABLES
    ms,     \* the MemStore under test
    ret,    \* the last call: method, arguments, error and value
    given,  \* per session index, the chains passed to the last StoreSession
    gone,   \* <<index, sender, msgIndex>> deleted since that StoreSession
    ks,     \* the key store of each party
    sent,   \* the envelopes on the network, each with the plaintext sent
    done,   \* <<party, envelope>>: the envelopes a party has decrypted
    fresh,  \* the number of the next key pair the random source yields
    last,   \* the last Encrypt or Decrypt call with its results
    row,    \* per party, its Encrypt calls to the peer in a row
    sends,  \* the number of Encrypt calls so far
    input,  \* the plaintext the callers send, and whether they sign it
    proc,   \* the position and the locals of each concurrent sender
    stored, \* per <<myID, contactID>>, the state of its last SetSessionState
    status, \* the lines deliver has written to statusfp
    delivery, \* the last deliver call: what it met, and the error returned
    equal,  \* the last StateEqual call: its arguments and its result
    cmd,    \* the last mutectrl command: its flags, its error, the ID it used
    update, \* the last checkUpdates call: what it met, and what it did
    engine, \* a command engine process: its databases and its passphrase
    keyinit, \* the last KeyInit call: its arguments and its results
    shell,  \* a command loop: its engine, the lines read, the status written
    ctrl    \* a mutectrl session: its message DB, its wallet clients

storeVars == <<ms, ret, given, gone, stored>>
engineVars == <<ks, sent, done, fresh, last, row, sends, input, proc>>
ctrlVars == <<cmd, update, engine, keyinit, shell, ctrl>>
toolVars == <<status, delivery, equal, cmd, update, engine, keyinit, shell, ctrl>>
vars == <<ms, ret, given, gone, ks, sent, done, fresh, last, row, sends, input, proc, stored, status, delivery, equal, cmd, update, engine, keyinit, shell, ctrl>>

Parties == {Alice, Bob}
\* the concurrent senders, none of them started
Senders == {1, 2}
Idle == [pc |-> "idle", ss |-> NilState, index |-> 0, err |-> NoErr, round |-> 0]
NoSenders == [i \in Senders |-> Idle]
NoRow == [n |-> 0, ok |-> 0, rot |-> 0]
\* sig and read are results of Decrypt: the signature it returns, and whether
\* it asked the key store for a message key
NoCall == [op |-> "", who |-> "", to |-> "", err |-> NoErr, env |-> NoEnvelope, p |-> NoPlaintext, n |-> 0, sig |-> NoSignature, read |-> FALSE]

\* the engine at rest, while the store is driven directly
EngineIdle ==
    /\ ks = [P \in Parties |-> New]
    /\ sent = {}
    /\ done = {}
    /\ fresh = 0
    /\ last = NoCall
    /\ row = [P \in Parties |-> NoRow]
    /\ sends = 0
    /\ input = [p |-> NoPlaintext, sign |-> FALSE]
    /\ proc = NoSenders

\* no deliver call and no StateEqual call yet
NoDelivery ==
    [met |-> [readErr |-> NoErr, decodeErr |-> NoErr, deliverErr |-> NoErr, resend |-> FALSE],
     err |-> NoErr, n |-> 0]
NoEqual == [a |-> NilState, b |-> NilState, called |-> FALSE, panics |-> FALSE, val |-> FALSE]
\* no command run, no update checked, no engine started, no KeyInit made
NoCommand == [name |-> "", called |-> FALSE]
NoUpdate == [called |-> FALSE]
\* a []byte: nil, or the bytes
NilBytes == [isNil |-> TRUE, s |-> ""]
Bytes(s) == [isNil |-> FALSE, s |-> s]
\* the engine of a process not started: nothing prepared, no database open,
\* no passphrase read, the passphrase file pointer open and never read;
\* handles counts the database handles opened and not closed
NoEngine ==
    [kind |-> "", started |-> FALSE, prepared |-> FALSE, db |-> FALSE,
     passphrase |-> NilBytes, fp |-> "open", readlines |-> 0,
     looping |-> FALSE, exited |-> FALSE, err |-> NoErr, n |-> 0, handles |-> 0]
NoKeyInit == [op |-> "", called |-> FALSE, err |-> "nil"]
\* no command loop started: e is the engine, err is ce.err, run is what the
\* last app.Run returned, depth counts the loops entered and not left, line
\* and out are the last line read and the status written since; dispatched
\* is ce.err as the last line was dispatched, owed counts the lines read and
\* not answered by READY., cause tells why the loop was left
NoShell ==
    [e |-> NoEngine, err |-> NoErr, run |-> NoErr, pc |-> "idle", depth |-> 0,
     line |-> "", out |-> <<>>, n |-> 0, dispatched |-> NoErr, owed |-> 0,
     cause |-> "", quits |-> 0, afterQuit |-> FALSE, ret |-> NoErr,
     closes |-> 0, closeRet |-> NoErr]
\* no prepare call yet: last holds what the last call was given, what it met
\* and what it did
NoPrepare ==
    [called |-> FALSE, offline |-> FALSE, openMsgDB |-> FALSE, checkUpdates |-> FALSE,
     config |-> "", err |-> NoErr, fetched |-> FALSE, wentOnline |-> FALSE, wrote |-> <<>>]
\* a CtrlEngine not prepared: no message DB, ce.client nil (0); made counts
\* the service guard clients created, online holds those that are online,
\* left those still online as the message DB was closed
NoCtrl ==
    [prepared |-> FALSE, db |-> FALSE, client |-> 0, made |-> 0, online |-> {},
     closed |-> FALSE, left |-> {}, n |-> 0, last |-> NoPrepare]
CtrlIdle ==
    /\ cmd = NoCommand
    /\ update = NoUpdate
    /\ engine = NoEngine
    /\ keyinit = NoKeyInit
    /\ shell = NoShell
    /\ ctrl = NoCtrl
ToolsIdle ==
    /\ status = <<>>
    /\ delivery = NoDelivery
    /\ equal = NoEqual
    /\ CtrlIdle

Hashes == {"H1", "H2"}

\* n well-formed keys
Keys(tag, n) == [i \in 1..n |-> tag \o ToString(i - 1)]

\* a chain whose first key is replaced
WithFirst(chain, k) == [i \in 1..Len(chain) |-> IF i = 1 THEN k ELSE chain[i]]

\* the (send, recv) pairs the callers pass to StoreSession
ChainInputs ==
    {<<Keys("Ks", n), Keys("Kr", n)>> : n \in 0..MaxChain}
    \cup {<<Keys("Ks", 1), Keys("Kr", MaxChain)>>,
          <<Keys("Ks", MaxChain), Keys("Kr", 1)>>}
    \cup {<<WithFirst(Keys("Ks", 1), k), WithFirst(Keys("Kr", 1), k)>> :
            k \in {""} \cup Undecodable \cup ShortKeys}

WellFormed(k) == k # "" /\ k \notin Undecodable /\ k \notin ShortKeys

\* the record of a call; n alternates, so that a call repeated with the same
\* arguments and the same result is still a step
Call(op, index, sender, msgIndex, r) ==
    [op |-> op, index |-> index, sender |-> sender, msgIndex |-> msgIndex,
     err |-> r.err, val |-> r.val, n |-> 1 - ret.n]

StoreInit ==
    /\ ms = New
    /\ ret = [op |-> "New", index |-> "", sender |-> FALSE, msgIndex |-> 0,
              err |-> NoErr, val |-> "", n |-> 0]
    /\ given = EmptyMap
    /\ gone = {}
    /\ stored = EmptyMap
    /\ EngineIdle
    /\ ToolsIdle

\* the arguments the callers pass to StoreSession: every chain input for the
\* first session, one chain for a second session, and an unmapped identity
StoreInputs ==
    ({Alice} \X {"H1"} \X ChainInputs)
    \cup {<<Alice, "H2", <<Keys("Ks", 1), Keys("Kr", 1)>>>>,
          <<Unmapped, "H1", <<Keys("Ks", 1), Keys("Kr", 1)>>>>}

\* StoreSession with one of the given arguments
StoreSessionOf(inputs) ==
    \E in \in inputs :
        LET myID == in[1]
            hash == in[2]
            c == in[3]
            r == StoreSession(ms, myID, Bob, hash, "RK", "CK", c[1], c[2])
            index == SessionIndex(myID, Bob, hash)
        IN  /\ ms' = r.ms
            /\ ret' = Call("StoreSession", index, FALSE, 0, r)
            /\ IF r.err = NoErr
               THEN /\ given' = Put(given, index, [send |-> c[1], recv |-> c[2]])
                    /\ gone' = {g \in gone : g[1] # index}
               ELSE UNCHANGED <<given, gone>>
            /\ UNCHANGED <<stored, toolVars>>
            /\ UNCHANGED engineVars

CallStoreSession == StoreSessionOf(StoreInputs)

CallGetMessageKey ==
    \E hash \in Hashes, sender \in BOOLEAN, msgIndex \in 0..MaxChain :
        LET r == GetMessageKey(ms, Alice, Bob, hash, sender, msgIndex)
        IN  /\ ms' = r.ms
            /\ ret' = Call("GetMessageKey", SessionIndex(Alice, Bob, hash), sender, msgIndex, r)
            /\ UNCHANGED <<given, gone>>
            /\ UNCHANGED <<stored, toolVars>>
            /\ UNCHANGED engineVars

CallDelMessageKey ==
    \E hash \in Hashes, sender \in BOOLEAN, msgIndex \in 0..MaxChain :
        LET r == DelMessageKey(ms, Alice, Bob, hash, sender, msgIndex)
        IN  /\ ms' = r.ms
            /\ ret' = Call("DelMessageKey", SessionIndex(Alice, Bob, hash), sender, msgIndex, r)
            /\ gone' = IF r.err = NoErr
                       THEN gone \cup {<<SessionIndex(Alice, Bob, hash),
                                         sender, msgIndex>>}
                       ELSE gone
            /\ UNCHANGED given
            /\ UNCHANGED <<stored, toolVars>>
            /\ UNCHANGED engineVars

CallNumMessageKeys ==
    \E hash \in Hashes :
        LET r == NumMessageKeys(ms, Alice, Bob, hash)
        IN  /\ ms' = r.ms
            /\ ret' = Call("NumMessageKeys", SessionIndex(Alice, Bob, hash), FALSE, 0, r)
            /\ UNCHANGED <<given, gone>>
            /\ UNCHANGED <<stored, toolVars>>
            /\ UNCHANGED engineVars

\* the pairs <<myID, contactID>> of the parties, and the states they set
Pairs == {<<Alice, Bob>>, <<Bob, Alice>>}
States ==
    {State(0, n, 0, KeyEntry(1), KeyEntry(2), NilKeyEntry, NilKeyEntry, NymAddress, TRUE) : n \in 0..1}

\* the state last set for the pair t, nil if none was
LastSet(t) == IF Has(stored, t) THEN stored[t] ELSE NilState

\* SetSessionState for one of the pairs ts
SetState(ts) ==
    \E t \in ts, st \in States :
        LET r == SetSessionState(ms, t[1], t[2], st)
        IN  /\ ms' = r.ms
            /\ ret' = Call("SetSessionState", StateIndex(t[1], t[2]), FALSE, 0, r)
            /\ stored' = Put(stored, t, st)
            /\ UNCHANGED <<given, gone, toolVars>>
            /\ UNCHANGED engineVars

\* GetSessionState for one of the pairs ts
GetState(ts) ==
    \E t \in ts :
        LET r == GetSessionState(ms, t[1], t[2])
        IN  /\ ms' = r.ms
            /\ ret' = Call("GetSessionState", StateIndex(t[1], t[2]), FALSE, 0, r)
            /\ UNCHANGED <<given, gone, stored, toolVars>>
            /\ UNCHANGED engineVars

CallSetSessionState == SetState(Pairs)
CallGetSessionState == GetState(Pairs)

StoreNext ==
    \/ CallStoreSession
    \/ CallGetMessageKey
    \/ CallDelMessageKey
    \/ CallNumMessageKeys

SpecStore == StoreInit /\ [][StoreNext]_vars

\* the session states set and read between the other calls of the store,
\* with one session of full chains
StateInputs == {<<Alice, "H1", <<Keys("Ks", MaxChain), Keys("Kr", MaxChain)>>>>}

StateNext ==
    \/ CallSetSessionState
    \/ CallGetSessionState
    \/ StoreSessionOf(StateInputs)
    \/ CallGetMessageKey
    \/ CallDelMessageKey
    \/ CallNumMessageKeys

SpecState == StoreInit /\ [][StateNext]_vars

\* identity strings that are not addresses of the form name@domain;
\* SetSessionState and GetSessionState take them as they come
RawPairs ==
    {<<"alice", "mute.berlin@bob@mute.berlin">>,
     <<"alice@mute.berlin@bob", "mute.berlin">>}

AliasNext ==
    \/ SetState(Pairs \cup RawPairs)
    \/ GetState(Pairs \cup RawPairs)

SpecAlias == StoreInit /\ [][AliasNext]_vars

(***************************************************************************)
(* Claims about the key store.                                             *)
(***************************************************************************)
RetIsGet == ret.op = "GetMessageKey" /\ Has(given, ret.index)
RetKeyGone == <<ret.index, ret.sender, ret.msgIndex>> \in gone
RetChainLen == Len(given[ret.index].send)
RetGivenKey ==
    IF ret.sender THEN given[ret.index].send[ret.msgIndex + 1]
    ELSE given[ret.index].recv[ret.msgIndex + 1]

\* C1 as stated: a send-chain key is retrievable exactly once, that is, a
\* GetMessageKey(session, true, n) that follows a successful
\* GetMessageKey(session, true, n) fails with ErrMessageKeyUsed.
C1_SecondGetFails ==
    [][(/\ ret.op = "GetMessageKey" /\ ret.sender /\ ret.err = NoErr
        /\ ret'.op = "GetMessageKey" /\ ret'.sender
        /\ ret'.index = ret.index /\ ret'.msgIndex = ret.msgIndex)
       => ret'.err = ErrMessageKeyUsed]_storeVars

\* C1 as amended: GetMessageKey does not consume the key.  For a stored
\* session and an index n below the chain length, GetMessageKey(session,
\* true, n) returns the stored key for as long as DelMessageKey has not
\* deleted it (when the stored key is a well-formed message key), and fails
\* with ErrMessageKeyUsed, not with another error, once DelMessageKey has.
C1_SendKeyUntilDeleted ==
    (RetIsGet /\ ret.sender /\ ret.msgIndex < RetChainLen) =>
        /\ RetKeyGone => ret.err = ErrMessageKeyUsed
        /\ (~RetKeyGone /\ WellFormed(RetGivenKey)) =>
               (ret.err = NoErr /\ ret.val = RetGivenKey)

C1_Witness ==
    /\ RetIsGet /\ ret.sender /\ ret.msgIndex < RetChainLen
    /\ RetKeyGone /\ ret.err = ErrMessageKeyUsed
    /\ \E i \in 0..(RetChainLen - 1) :
           /\ <<ret.index, TRUE, i>> \notin gone
           /\ GetMessageKey(ms, Alice, Bob, "H1", TRUE, i).err = NoErr

\* C3: GetMessageKey at a deleted index fails with ErrMessageKeyUsed and at
\* an index at or beyond the chain length with the out-of-bounds error, on
\* the send and on the recv chain; the two errors differ, and a call that
\* fails with either leaves the store as it was.
C3_UsedVersusOutOfBounds ==
    /\ [](RetIsGet =>
            /\ ret.msgIndex >= RetChainLen => ret.err = ErrOutOfBounds
            /\ (ret.msgIndex < RetChainLen /\ RetKeyGone) =>
                   ret.err = ErrMessageKeyUsed
            /\ ErrOutOfBounds # ErrMessageKeyUsed)
    /\ [][(ret'.op = "GetMessageKey"
           /\ ret'.err \in {ErrMessageKeyUsed, ErrOutOfBounds}) => ms' = ms]_storeVars

C3_Witness ==
    /\ RetIsGet /\ ~ret.sender /\ ret.err = ErrOutOfBounds
    /\ \E i \in 0..(RetChainLen - 1) :
           /\ <<ret.index, FALSE, i>> \in gone
           /\ GetMessageKey(ms, Alice, Bob, "H1", FALSE, i).err = ErrMessageKeyUsed
    /\ \E i \in 0..(RetChainLen - 1) : <<ret.index, TRUE, i>> \in gone

\* C17: session states stored under different pairs of identities never
\* alias: for every pair, GetSessionState returns the state last set for
\* that pair, or nil if none was set, whatever was set for other pairs.
C17_NoAlias ==
    \A t \in Pairs \cup RawPairs :
        GetSessionState(ms, t[1], t[2]).val = LastSet(t)

\* C18: GetSessionState returns no error, and nil while no state was set
\* for the pair of parties, otherwise the state of the last
\* SetSessionState for that pair; no other call of the store (StoreSession,
\* GetMessageKey, DelMessageKey, NumMessageKeys) removes or changes a state.
C18_GetAfterSet ==
    /\ \A t \in Pairs :
        /\ GetSessionState(ms, t[1], t[2]).err = NoErr
        /\ GetSessionState(ms, t[1], t[2]).val = LastSet(t)
        /\ (ret.op = "GetSessionState" /\ ret.index = StateIndex(t[1], t[2])) =>
                (ret.err = NoErr /\ ret.val = LastSet(t))
    /\ ret.op = "SetSessionState" => ret.err = NoErr

C18_Witness ==
    /\ ret.op = "GetSessionState"
    /\ ret.index = StateIndex(Alice, Bob)
    /\ Has(stored, <<Alice, Bob>>)
    /\ ret.val = stored[<<Alice, Bob>>]
    /\ ret.val.SenderMessageCount = 1
    /\ ~Has(stored, <<Bob, Alice>>)
    /\ GetSessionState(ms, Bob, Alice).val = NilState
    /\ \E g \in gone : g[1] = SessionIndex(Alice, Bob, "H1")

(***************************************************************************)
(* Two parties, each with its own key store, exchanging envelopes.         *)
(***************************************************************************)
\* the Encrypt calls of one behaviour
MaxSends == 1

\* the plaintexts read from the reader: empty, short, of the maximum
\* length, and one byte longer
Payloads ==
    {[len |-> 0, data |-> ""], [len |-> 1, data |-> "a"],
     [len |-> MaxContentLength, data |-> "m"]}
TooLarge == [len |-> MaxContentLength + 1, data |-> "x"]
Message1 == [len |-> 1, data |-> "a"]

\* the stores after both parties published a one-time key (KeyInit) and
\* fetched the key of the other: key 1 is of Alice, key 2 of Bob.  As in
\* TestReflection, the store of Bob holds a long-term key as the key entry
\* of its owner (a duplicate key), here for Alias
Published ==
    [P \in Parties |->
        IF P = Alice
        THEN AddPublicKeyEntry(AddPrivateKeyEntry(New, KeyEntry(1)), Bob, KeyEntry(2))
        ELSE AddPublicKeyEntry(AddPublicKeyEntry(AddPrivateKeyEntry(New, KeyEntry(2)), Alice, KeyEntry(1)), Alias, PubKey(Alias))]


World(stores, net, dec, next, r) ==
    [ks |-> stores, sent |-> net, done |-> dec, fresh |-> next, row |-> r]

Cold == World(Published, {}, {}, 3, [P \in Parties |-> NoRow])

Bit(b) == IF b THEN 1 ELSE 0

\* whether the call replaced the session key of the sender
KeyChanged(before, after) ==
    ~before.isNil /\ ~after.isNil /\ after.SenderSessionPub.HASH # before.SenderSessionPub.HASH

\* the world after from has sent e and to has decrypted it with result d
Exchanged(w, from, to, e, d) ==
    World((from :> e.ms) @@ (to :> IF e.err = NoErr THEN d.ms ELSE w.ks[to]),
          IF e.err = NoErr THEN {[env |-> e.env, p |-> Message1]} ELSE {},
          IF e.err = NoErr /\ d.err = NoErr THEN {<<to, e.env>>} ELSE {},
          e.fresh,
          (from :> [n |-> w.row[from].n + 1, ok |-> w.row[from].ok + Bit(e.err = NoErr),
                    rot |-> w.row[from].rot + Bit(KeyChanged(GetSessionState(w.ks[from], from, to).val, GetSessionState(e.ms, from, to).val))])
          @@ (to :> NoRow))

Delivered(w, from, to, e) ==
    Exchanged(w, from, to, e, Decrypt(w.ks[to], {to}, e.env))

\* from sends Message1 to its peer to, who decrypts it
Exchange(w, from, to, stage) ==
    Delivered(w, from, to, Encrypt(w.ks[from], from, to, Message1, FALSE, stage, w.fresh))

\* the state after n more such exchanges in a row
RECURSIVE Continue(_, _, _, _, _)
Continue(w, n, from, to, stage) ==
    \* (key numbers are never 0: the test evaluates w before the next exchange)
    IF n = 0 \/ w.fresh = 0 THEN w
    ELSE Continue(Exchange(w, from, to, stage), n - 1, from, to, stage)

\* Bob has sent n messages to Alice, who has not answered
OneWay(n, stage) == Continue(Cold, n, Bob, Alice, stage)

\* Bob has used up his chain and staged a key; Alice has answered once,
\* publishing a key of her own
Answered == Exchange(OneWay(NumOfFutureKeys, TRUE), Alice, Bob, FALSE)

\* the start of a behaviour: no message sent yet, or one of the above
Starts ==
    {Cold, OneWay(NumOfFutureKeys - 1, FALSE), OneWay(NumOfFutureKeys, FALSE), Answered}

Init ==
    /\ \E w \in Starts :
        /\ ks = w.ks
        /\ sent = w.sent
        /\ done = w.done
        /\ fresh = w.fresh
        /\ row = w.row
        /\ input \in [p : IF w = Cold THEN Payloads ELSE {Message1}, sign : BOOLEAN]
    /\ last = NoCall
    /\ sends = 0
    /\ proc = NoSenders
    /\ ms = New
    /\ ret = [op |-> "New", index |-> "", sender |-> FALSE, msgIndex |-> 0, err |-> NoErr, val |-> "", n |-> 0]
    /\ given = EmptyMap
    /\ gone = {}
    /\ stored = EmptyMap
    /\ ToolsIdle

\* what the network or a faulty peer does to an envelope before delivery
Tampers == {"none", "mac", "pad", "sig", "version", "short", "index"}
Tamper(env, t) ==
    CASE t = "mac" -> [env EXCEPT !.body.mac = FALSE]
      [] t = "pad" -> [env EXCEPT !.body.content.padding = @ + 1]
      [] t = "sig" -> [env EXCEPT !.sig = Sign(env.to, Unpad(env.body.content))]
      [] t = "version" -> [env EXCEPT !.version = @ + 1]
      [] t = "short" -> [env EXCEPT !.truncated = TRUE]
      [] t = "index" -> [env EXCEPT !.senderMessageCount = NumOfFutureKeys]
      [] OTHER -> env

\* the Encrypt calls of the callers: the plaintext of the behaviour to the
\* peer, with or without a key staged; a plaintext that is too long; and a
\* message to Alias
Calls ==
    {<<from, to, input.p, stage>> : from \in Parties, to \in Parties, stage \in BOOLEAN}
    \cup {<<from, to, TooLarge, FALSE>> : from \in Parties, to \in Parties}
    \cup {<<from, Alias, input.p, FALSE>> : from \in Parties}

CallEncrypt ==
    \E c \in Calls :
        \E r \in {Encrypt(ks[c[1]], c[1], c[2], c[3], input.sign, c[4], fresh)} :
            LET from == c[1]
                to == c[2]
                p == c[3]
            IN  /\ sends < MaxSends
                /\ to # from
                /\ ks' = [ks EXCEPT ![from] = r.ms]
                /\ sent' = IF r.err = NoErr THEN sent \cup {[env |-> r.env, p |-> p]} ELSE sent
                /\ fresh' = r.fresh
                /\ last' = [op |-> "Encrypt", who |-> from, to |-> to, err |-> r.err, env |-> r.env, p |-> p, n |-> r.n, sig |-> NoSignature, read |-> FALSE]
                /\ row' = IF p = TooLarge THEN row
                          ELSE IF to \in Parties
                          THEN [row EXCEPT ![from] = [n |-> @.n + 1, ok |-> @.ok + Bit(r.err = NoErr),
                                                      rot |-> @.rot + Bit(KeyChanged(GetSessionState(ks[from], from, to).val, GetSessionState(r.ms, from, to).val))]]
                          ELSE [row EXCEPT ![from] = NoRow]
                /\ sends' = sends + 1
                /\ UNCHANGED <<done, input, proc>>
                /\ UNCHANGED storeVars
                /\ UNCHANGED toolVars

CallDecrypt ==
    \E who \in Parties, s \in sent, t \in Tampers :
        \E r \in {decrypt(ks[who], {who}, Tamper(s.env, t))} :
            LET env == Tamper(s.env, t)
            IN  /\ who # s.env.to => t = "none"
                /\ ks' = [ks EXCEPT ![who] = r.ms]
                /\ done' = IF r.err = NoErr THEN done \cup {<<who, env>>} ELSE done
                /\ last' = [op |-> "Decrypt", who |-> who, to |-> env.from, err |-> r.err, env |-> env, p |-> r.p, n |-> r.p.len, sig |-> r.sig, read |-> r.read]
                /\ row' = [row EXCEPT ![who] = NoRow]
                /\ UNCHANGED <<sent, fresh, sends, input, proc>>
                /\ UNCHANGED storeVars
                /\ UNCHANGED toolVars

Next ==
    \/ CallEncrypt
    \/ CallDecrypt

Spec == Init /\ [][Next]_vars

(***************************************************************************)
(* Properties of Encrypt and Decrypt.                                      *)
(***************************************************************************)
Net == {s.env : s \in sent}
StateOf(stores, P, Q) == GetSessionState(stores[P], P, Q).val

\* C2: once a party has decrypted an envelope, every later Decrypt of that
\* envelope by the same party, against the same key store, fails with
\* ErrMessageKeyUsed: it neither succeeds again nor fails with the
\* authentication error.
C2_ReplayFails ==
    [][(last'.op = "Decrypt" /\ <<last'.who, last'.env>> \in done)
        => last'.err = ErrMessageKeyUsed]_vars

C2_Witness ==
    /\ last.op = "Decrypt"
    /\ last.err = ErrMessageKeyUsed
    /\ <<last.who, last.env>> \in done
    /\ last.env \in Net

\* C4: a successful Encrypt under the session key of the state leaves
\* SenderMessageCount greater than before, its index is greater than the
\* index of every envelope sent before under that session key, and its
\* envelope differs from every envelope sent before.
C4_CountIncreases ==
    [][(last'.op = "Encrypt" /\ last'.err = NoErr) =>
        LET before == StateOf(ks, last'.who, last'.to)
            after == StateOf(ks', last'.who, last'.to)
        IN  /\ last'.env \notin Net
            /\ \A e \in Net :
                (e.from = last'.who /\ e.to = last'.to /\ e.senderSessionPub = last'.env.senderSessionPub)
                    => e.senderMessageCount < last'.env.senderMessageCount
            /\ (~before.isNil /\ before.SenderSessionPub = after.SenderSessionPub)
                    => after.SenderMessageCount > before.SenderMessageCount]_vars

C4_Witness ==
    /\ last.op = "Encrypt"
    /\ last.err = NoErr
    /\ \E s \in sent :
        /\ s.p = last.p
        /\ s.env # last.env
        /\ s.env.from = last.who
        /\ s.env.senderSessionPub = last.env.senderSessionPub
        /\ s.env.senderMessageCount + 1 = last.env.senderMessageCount

Peer(P) == IF P = Alice THEN Bob ELSE Alice
\* the positions of the deleted keys of a chain
Deleted(chain) == {i \in 1..Len(chain) : chain[i] = ""}

\* the keys deleted from the sessions of P are those its persisted state
\* records: some state is stored once a key is deleted; in the session of
\* the current key the deleted send keys are exactly those below
\* SenderMessageCount, the deleted recv keys lie below MaxRecipientCount and
\* the key just below MaxRecipientCount is deleted
Recorded(P) ==
    LET ss == StateOf(ks, P, Peer(P))
        cur == SessionIndex(P, Peer(P), ss.SenderSessionPub.HASH)
        c == ks[P].sessions[cur]
    IN  /\ \A x \in DOMAIN ks[P].sessions :
            (Deleted(ks[P].sessions[x].send) \cup Deleted(ks[P].sessions[x].recv) # {}) => ~ss.isNil
        /\ (~ss.isNil /\ Has(ks[P].sessions, cur)) =>
            /\ Deleted(c.send) = 1..ss.SenderMessageCount
            /\ \A i \in Deleted(c.recv) : i <= ss.MaxRecipientCount
            /\ ss.MaxRecipientCount > 0 => ss.MaxRecipientCount \in Deleted(c.recv)

\* C5: after any sequence of Encrypt and Decrypt calls, failing ones
\* included, a message key is deleted if and only if the persisted session
\* state records its consumption, and a call that returns an error changes
\* neither the keys nor the states of any store.
C5_DeletedIffPersisted ==
    /\ [](\A P \in Parties : Recorded(P))
    /\ [][last'.err # NoErr => ks' = ks]_vars

C5_Witness ==
    /\ last.op = "Decrypt"
    /\ last.err = ErrAuthenticationFailed
    /\ \E P \in Parties :
        /\ ~StateOf(ks, P, Peer(P)).isNil
        /\ ~StateOf(ks, Peer(P), P).isNil
        /\ StateOf(ks, P, Peer(P)).SenderMessageCount = NumOfFutureKeys
        /\ StateOf(ks, Peer(P), P).MaxRecipientCount = NumOfFutureKeys
        /\ StateOf(ks, Peer(P), P).SenderMessageCount = 1

\* C7: Decrypt, by the recipient, of an envelope that Encrypt wrote and the
\* recipient has not decrypted before succeeds and returns exactly the
\* plaintext that was encrypted, signed or not, in either direction.
C7_RoundTrip ==
    [][(/\ last'.op = "Decrypt"
        /\ last'.env \in Net
        /\ last'.who = last'.env.to
        /\ <<last'.who, last'.env>> \notin done)
        => /\ last'.err = NoErr
           /\ [env |-> last'.env, p |-> last'.p] \in sent]_vars

\* a message of the rotated session, decrypted by the peer
C7_Witness ==
    /\ last.op = "Decrypt"
    /\ last.err = NoErr
    /\ last.p = input.p
    /\ last.env.senderSessionCount = NumOfFutureKeys
    /\ StateOf(ks, last.who, last.to).SenderSessionPub.HASH = last.env.recipientTempHash
    /\ StateOf(ks, last.who, last.to).RecipientTemp = last.env.senderSessionPub
    /\ StateOf(ks, last.who, last.to).SenderSessionCount > 0

\* C8: 51 messages sent in a row to the same peer, one more than the
\* NumOfFutureKeys keys of a chain, are all sent, with exactly one change of
\* the session key of the sender.
C8_OneRotationIn51Sends ==
    \A P \in Parties :
        row[P].n = NumOfFutureKeys + 1
            => (row[P].ok = NumOfFutureKeys + 1 /\ row[P].rot = 1)

\* C9: Encrypt to an identity with the long-term key of the sender fails
\* with ErrReflection and changes no key store: no session state is set, no
\* session is stored and no message key is deleted.
C9_Reflection ==
    [][(last'.op = "Encrypt" /\ PubKey(last'.who).HASH = PubKey(last'.to).HASH)
        => (last'.err = ErrReflection /\ ks' = ks)]_vars

C9_Witness ==
    /\ last.op = "Encrypt"
    /\ last.who = Alice
    /\ last.to = Alias
    /\ last.err = ErrReflection
    /\ ~StateOf(ks, Alice, Bob).isNil
    /\ StateOf(ks, Alice, Alias).isNil

\* C10: every successful Encrypt writes exactly EncodedMsgSize bytes, for
\* every length of the plaintext up to MaxContentLength, signed or not.
C10_ConstantSize ==
    (last.op = "Encrypt" /\ last.err = NoErr)
        => (last.n = EncodedMsgSize /\ last.env.size = EncodedMsgSize)

C10_Witness ==
    /\ last.op = "Encrypt"
    /\ last.err = NoErr
    /\ last.p.len = 0
    /\ last.env.sig # NoSignature
    /\ last.n = EncodedMsgSize

\* the header of the envelope is complete and of the current version
HeaderOk(env) == ~env.truncated /\ env.version = Version

\* C11: Encrypt accepts exactly the plaintexts of length 0..MaxContentLength.
\* A plaintext of length MaxContentLength is encrypted, and the recipient
\* decrypts it to the same plaintext; a longer plaintext fails with
\* ErrContentTooLarge, a shorter one never does, and the failing call
\* changes no key store, generates no key and writes no output.
C11_ContentLength ==
    [][/\ (last'.op = "Encrypt" /\ last'.p.len > MaxContentLength) =>
            /\ last'.err = ErrContentTooLarge
            /\ ks' = ks /\ fresh' = fresh /\ sent' = sent
            /\ last'.n = 0 /\ last'.env = NoEnvelope
       /\ (last'.op = "Encrypt" /\ last'.p.len <= MaxContentLength) =>
            last'.err # ErrContentTooLarge
       /\ (/\ last'.op = "Encrypt" /\ last'.p.len = MaxContentLength
           /\ last'.to \in Parties) =>
            (last'.err = NoErr /\ [env |-> last'.env, p |-> last'.p] \in sent')
       /\ (/\ last'.op = "Decrypt" /\ last'.who = last'.env.to
           /\ <<last'.who, last'.env>> \notin done
           /\ \E x \in sent : x.env = last'.env /\ x.p.len = MaxContentLength) =>
            (last'.err = NoErr /\ last'.p.len = MaxContentLength
                /\ [env |-> last'.env, p |-> last'.p] \in sent)]_vars

C11_Witness ==
    /\ last.op = "Encrypt"
    /\ last.p = TooLarge
    /\ last.err = ErrContentTooLarge
    /\ ~StateOf(ks, last.who, last.to).isNil
    /\ StateOf(ks, last.who, last.to).SenderMessageCount > 0

\* C12: an envelope whose outer header is cut short, or whose version is
\* not Version, is rejected by the caller of Decrypt before any
\* cryptographic operation: no message key is asked of the key store, no
\* key store changes and no plaintext is written.
C12_HeaderRejected ==
    [][(last'.op = "Decrypt" /\ ~HeaderOk(last'.env)) =>
        /\ last'.err = (IF last'.env.truncated THEN ErrShortHeader ELSE ErrWrongVersion)
        /\ ~last'.read
        /\ ks' = ks
        /\ done' = done
        /\ last'.p = NoPlaintext]_vars

C12_Witness ==
    /\ last.op = "Decrypt"
    /\ last.err = ErrWrongVersion
    /\ last.env.version # Version
    /\ ~last.read
    /\ last.who = last.env.to
    /\ decrypt(ks[last.who], {last.who}, [last.env EXCEPT !.version = Version]).err = NoErr

\* C13: Decrypt of an envelope whose authentication tag does not verify
\* fails (with ErrAuthenticationFailed if the message key is still there),
\* writes no plaintext and changes no key store: no recv key is deleted and
\* no counter advances, so that the original envelope is decrypted
\* afterwards with the same key store.
C13_MacFailure ==
    [][(/\ last'.op = "Decrypt" /\ last'.who = last'.env.to
        /\ HeaderOk(last'.env) /\ ~last'.env.body.mac) =>
        /\ last'.err # NoErr
        /\ last'.p = NoPlaintext
        /\ ks' = ks
        /\ done' = done
        /\ \A x \in sent :
            (Tamper(x.env, "mac") = last'.env /\ <<last'.who, x.env>> \notin done) =>
                /\ last'.err = ErrAuthenticationFailed
                /\ decrypt(ks'[last'.who], {last'.who}, x.env).err = NoErr
                /\ decrypt(ks'[last'.who], {last'.who}, x.env).p = x.p]_vars

C13_Witness ==
    /\ last.op = "Decrypt"
    /\ last.err = ErrAuthenticationFailed
    /\ ~last.env.body.mac
    /\ \E x \in sent :
        /\ Tamper(x.env, "mac") = last.env
        /\ decrypt(ks[last.who], {last.who}, x.env).err = NoErr
        /\ decrypt(ks[last.who], {last.who}, x.env).p = x.p

\* the signature is one of the signing key of id over the digest of p
Verifies(sig, id, p) == sig.signer = PubKey(id).HASH /\ sig.digest = p.data

\* C14: Encrypt attaches a signature exactly when it is given the signing
\* key of the sender, and that signature verifies under the long-term key
\* of the sender over the plaintext; a successful Decrypt returns the
\* signature of the envelope, empty for an unsigned message, and a returned
\* signature verifies over the recovered plaintext; an envelope with a
\* signature that does not verify fails with ErrInvalidSignature, which is
\* not the authentication error.
C14_Signature ==
    [][/\ (last'.op = "Encrypt" /\ last'.err = NoErr) =>
            /\ (last'.env.sig # NoSignature) <=> input.sign
            /\ input.sign => Verifies(last'.env.sig, last'.who, last'.p)
       /\ (last'.op = "Decrypt" /\ last'.err = NoErr) =>
            /\ last'.sig = last'.env.sig
            /\ last'.sig # NoSignature => Verifies(last'.sig, last'.to, last'.p)
       /\ (/\ last'.op = "Decrypt" /\ last'.who = last'.env.to
           /\ last'.env.sig # NoSignature
           /\ ~Verifies(last'.env.sig, last'.env.from, Unpad(last'.env.body.content))
           /\ \E x \in sent : Tamper(x.env, "sig") = last'.env /\ <<last'.who, x.env>> \notin done) =>
            /\ last'.err = ErrInvalidSignature
            /\ last'.p = NoPlaintext
            /\ last'.sig = NoSignature
       /\ ErrInvalidSignature # ErrAuthenticationFailed]_vars

C14_Witness ==
    /\ last.op = "Decrypt"
    /\ last.err = NoErr
    /\ input.sign
    /\ last.sig # NoSignature
    /\ Verifies(last.sig, last.to, last.p)
    /\ last.p = input.p

\* no rotation is staged in the state of P with Q
NotStaged(stores, P, Q) ==
    StateOf(stores, P, Q).isNil \/ StateOf(stores, P, Q).NextSenderSessionPub.isNil

\* C15: the reception of a message whose index is at or beyond the
\* NumOfFutureKeys keys of the recv chain, by a recipient who has staged no
\* rotation, fails with ErrChainExhausted and leaves the key store as it
\* was: no key is generated or stored for the session.
C15_ChainExhausted ==
    [][(/\ last'.op = "Decrypt" /\ last'.who = last'.env.to
        /\ HeaderOk(last'.env)
        /\ last'.env.senderMessageCount >= NumOfFutureKeys
        /\ NotStaged(ks, last'.who, last'.to)) =>
        /\ last'.err = ErrChainExhausted
        /\ ks' = ks
        /\ last'.p = NoPlaintext]_vars

C15_Witness ==
    /\ last.op = "Decrypt"
    /\ last.err = ErrChainExhausted
    /\ last.env.senderMessageCount = NumOfFutureKeys
    /\ ~StateOf(ks, last.who, last.to).isNil
    /\ StateOf(ks, last.who, last.to).NextSenderSessionPub.isNil
    /\ StateOf(ks, last.who, last.to).MaxRecipientCount = NumOfFutureKeys
    /\ NumMessageKeys(ks[last.who], last.who, last.to, last.env.recipientTempHash).val = NumOfFutureKeys

\* the number of send keys deleted in the sessions xs of the store
RECURSIVE SendKeysUsed(_, _)
SendKeysUsed(store, xs) ==
    IF xs = {} THEN 0
    ELSE LET x == CHOOSE y \in xs : TRUE
         IN  Cardinality(Deleted(store.sessions[x].send)) + SendKeysUsed(store, xs \ {x})

\* the messages P has sent under its earlier session keys
SentBefore(P) ==
    LET cur == SessionIndex(P, Peer(P), StateOf(ks, P, Peer(P)).SenderSessionPub.HASH)
    IN  SendKeysUsed(ks[P], DOMAIN ks[P].sessions \ {cur})

\* C16: a call that replaces the session key of a party resets its
\* SenderMessageCount to 0 (a send then counts its own message) and adds to
\* SenderSessionCount exactly the SenderMessageCount of the superseded key;
\* a call that keeps the session key keeps SenderSessionCount; and
\* SenderSessionCount is the number of messages sent under all earlier
\* session keys.
C16_SessionCount ==
    /\ [](\A P \in Parties :
            ~StateOf(ks, P, Peer(P)).isNil =>
                StateOf(ks, P, Peer(P)).SenderSessionCount = SentBefore(P))
    /\ [][\A P \in Parties :
            LET before == StateOf(ks, P, Peer(P))
                after == StateOf(ks', P, Peer(P))
            IN  (~before.isNil /\ ~after.isNil) =>
                    IF after.SenderSessionPub # before.SenderSessionPub
                    THEN /\ after.SenderSessionCount = before.SenderSessionCount + before.SenderMessageCount
                         /\ after.SenderMessageCount = Bit(last'.op = "Encrypt")
                         /\ last'.op = "Encrypt" => last'.env.senderMessageCount = 0
                    ELSE /\ after.SenderSessionCount = before.SenderSessionCount
                         /\ after.SenderMessageCount >= before.SenderMessageCount]_vars

C16_Witness ==
    /\ last.op = "Encrypt"
    /\ last.err = NoErr
    /\ last.env.senderSessionCount = NumOfFutureKeys
    /\ last.env.senderMessageCount = 0
    /\ StateOf(ks, last.who, last.to).SenderSessionCount = NumOfFutureKeys
    /\ StateOf(ks, last.who, last.to).SenderMessageCount = 1
    /\ SentBefore(last.who) = NumOfFutureKeys


(***************************************************************************)
(* Two sends of Bob to Alice running concurrently against one MemStore.   *)
(* Each send continues the established session with the store calls of    *)
(* Encrypt, one call per step; MemStore holds no lock, so the calls of    *)
(* the two sends interleave.                                               *)
(***************************************************************************)
\* the sends each of the concurrent senders starts
MaxRounds == 2

restVars == <<ret, given, gone, ks, sent, done, fresh, last, row, sends, input, stored, status, delivery, equal, cmd, update, engine, keyinit, shell, ctrl>>

\* the store of Bob after one message, or two, to Alice
ConcStores == {OneWay(1, FALSE).ks[Bob], OneWay(2, FALSE).ks[Bob]}

ConcInit ==
    /\ ms \in ConcStores
    /\ ret = [op |-> "New", index |-> "", sender |-> FALSE, msgIndex |-> 0, err |-> NoErr, val |-> "", n |-> 0]
    /\ given = EmptyMap
    /\ gone = {}
    /\ stored = EmptyMap
    /\ EngineIdle
    /\ ToolsIdle

\* GetSessionState: the send reads the state and its message count
ReadState(i) ==
    LET g == GetSessionState(ms, Bob, Alice)
    IN  /\ proc[i].pc \in {"idle", "done", "failed"}
        /\ proc[i].round < MaxRounds
        /\ proc' = [proc EXCEPT ![i] = [pc |-> "key", ss |-> g.val, index |-> g.val.SenderMessageCount, err |-> g.err, round |-> @.round + 1]]
        /\ ms' = g.ms
        /\ UNCHANGED restVars

\* GetMessageKey at the index read
ObtainKey(i) ==
    LET l == proc[i]
        k == GetMessageKey(ms, Bob, Alice, l.ss.SenderSessionPub.HASH, TRUE, l.index)
    IN  /\ l.pc = "key"
        /\ proc' = [proc EXCEPT ![i].pc = IF k.err = NoErr THEN "del" ELSE "failed", ![i].err = k.err]
        /\ ms' = k.ms
        /\ UNCHANGED restVars

\* DelMessageKey of the key obtained
DeleteKey(i) ==
    LET l == proc[i]
        d == DelMessageKey(ms, Bob, Alice, l.ss.SenderSessionPub.HASH, TRUE, l.index)
    IN  /\ l.pc = "del"
        /\ proc' = [proc EXCEPT ![i].pc = IF d.err = NoErr THEN "set" ELSE "failed", ![i].err = d.err]
        /\ ms' = d.ms
        /\ UNCHANGED restVars

\* SetSessionState with the count advanced
WriteState(i) ==
    LET l == proc[i]
        w == SetSessionState(ms, Bob, Alice, Sent(l.ss))
    IN  /\ l.pc = "set"
        /\ proc' = [proc EXCEPT ![i].pc = "done", ![i].err = w.err]
        /\ ms' = w.ms
        /\ UNCHANGED restVars

ConcNext ==
    \/ \E i \in Senders : ReadState(i)
    \/ \E i \in Senders : ObtainKey(i)
    \/ \E i \in Senders : DeleteKey(i)
    \/ \E i \in Senders : WriteState(i)

SpecConc == ConcInit /\ [][ConcNext]_vars

\* the sender holds the message key of its index
HoldsKey(i) == proc[i].pc \in {"del", "set", "done"}

\* C6: two sends of the same session running concurrently against the same
\* key store never obtain the message key of the same send-chain index.
C6_DistinctIndexes ==
    \A i \in Senders, j \in Senders :
        (i # j /\ HoldsKey(i) /\ HoldsKey(j)
            /\ proc[i].ss.SenderSessionPub = proc[j].ss.SenderSessionPub)
            => proc[i].index # proc[j].index

(***************************************************************************)
(* session.StateEqual, applied to pairs of states and nil pointers.        *)
(***************************************************************************)
\* uid.KeyEntryEqual on two *uid.KeyEntry, either of which may be nil
KeyEntryEqual(a, b) ==
    IF a.isNil \/ b.isNil THEN a.isNil /\ b.isNil
    ELSE a.HASH = b.HASH /\ a.key = b.key

\* the outcome of a call: a boolean, or the panic of the Go runtime on the
\* dereference of a nil pointer
Returns(v) == [panics |-> FALSE, val |-> v]
NilDereference == [panics |-> TRUE, val |-> FALSE]

StateEqual(a, b) ==
    IF a.isNil /\ b.isNil THEN Returns(TRUE)
    ELSE IF a.isNil \/ b.isNil THEN NilDereference
    ELSE IF a.SenderSessionCount # b.SenderSessionCount THEN Returns(FALSE)
    ELSE IF a.SenderMessageCount # b.SenderMessageCount THEN Returns(FALSE)
    ELSE IF a.MaxRecipientCount # b.MaxRecipientCount THEN Returns(FALSE)
    ELSE IF ~KeyEntryEqual(a.RecipientTemp, b.RecipientTemp) THEN Returns(FALSE)
    ELSE IF ~KeyEntryEqual(a.SenderSessionPub, b.SenderSessionPub) THEN Returns(FALSE)
    ELSE IF ~KeyEntryEqual(a.NextSenderSessionPub, b.NextSenderSessionPub) THEN Returns(FALSE)
    ELSE IF ~KeyEntryEqual(a.NextRecipientSessionPubSeen, b.NextRecipientSessionPubSeen)
    THEN Returns(FALSE)
    ELSE IF a.NymAddress # b.NymAddress THEN Returns(FALSE)
    ELSE IF a.KeyInitSession # b.KeyInitSession THEN Returns(FALSE)
    ELSE Returns(TRUE)

\* the arguments: nil (what GetSessionState returns while no state is set),
\* a state, and the states that differ from it in one field, among them
\* those with an optional key entry absent
Full == State(1, 2, 3, KeyEntry(1), KeyEntry(2), KeyEntry(3), KeyEntry(4), NymAddress, TRUE)
EqualArgs ==
    {NilState, Full,
     [Full EXCEPT !.SenderSessionCount = 0],
     [Full EXCEPT !.SenderMessageCount = 0],
     [Full EXCEPT !.MaxRecipientCount = 0],
     [Full EXCEPT !.RecipientTemp = KeyEntry(5)],
     [Full EXCEPT !.SenderSessionPub = KeyEntry(5)],
     [Full EXCEPT !.NextSenderSessionPub = NilKeyEntry],
     [Full EXCEPT !.NextRecipientSessionPubSeen = NilKeyEntry],
     [Full EXCEPT !.NextSenderSessionPub = NilKeyEntry, !.NextRecipientSessionPubSeen = NilKeyEntry],
     [Full EXCEPT !.NymAddress = "nym"],
     [Full EXCEPT !.KeyInitSession = FALSE]}

CallStateEqual ==
    \E a \in EqualArgs, b \in EqualArgs :
        /\ equal' = [a |-> a, b |-> b, called |-> TRUE,
                     panics |-> StateEqual(a, b).panics, val |-> StateEqual(a, b).val]
        /\ UNCHANGED <<status, delivery>>
        /\ UNCHANGED ctrlVars
        /\ UNCHANGED storeVars
        /\ UNCHANGED engineVars

EqualInit ==
    /\ StoreInit

EqualNext ==
    \/ CallStateEqual

SpecEqual == EqualInit /\ [][EqualNext]_vars

\* the two states agree on all nine exported fields
Agree(a, b) ==
    /\ a.SenderSessionCount = b.SenderSessionCount
    /\ a.SenderMessageCount = b.SenderMessageCount
    /\ a.MaxRecipientCount = b.MaxRecipientCount
    /\ a.RecipientTemp = b.RecipientTemp
    /\ a.SenderSessionPub = b.SenderSessionPub
    /\ a.NextSenderSessionPub = b.NextSenderSessionPub
    /\ a.NextRecipientSessionPubSeen = b.NextRecipientSessionPubSeen
    /\ a.NymAddress = b.NymAddress
    /\ a.KeyInitSession = b.KeyInitSession

\* C19: StateEqual(a, b) returns a boolean for every pair of arguments,
\* also with optional key entries absent; for two states it returns true
\* exactly when they agree on all nine exported fields; StateEqual(a, a) is
\* true, and StateEqual(b, a) returns what StateEqual(a, b) returns.
C19_StateEqual ==
    equal.called =>
        /\ ~equal.panics
        /\ (~equal.a.isNil /\ ~equal.b.isNil) => (equal.val <=> Agree(equal.a, equal.b))
        /\ equal.a = equal.b => equal.val
        /\ StateEqual(equal.b, equal.a) = StateEqual(equal.a, equal.b)

(***************************************************************************)
(* ProtoEngine.deliver: one message read, decoded and handed to the mix.   *)
(***************************************************************************)
\* the deliver calls of one behaviour
MaxDeliveries == 3

\* what a call meets: the error of ioutil.ReadAll, of base64.Decode and of
\* Deliver, and the Resend flag of the message Deliver returns
Meets ==
    [readErr : {NoErr, "read: broken pipe"},
     decodeErr : {NoErr, "illegal base64 data"},
     deliverErr : {NoErr, "mix: queue full", "mix: rejected"},
     resend : BOOLEAN]

\* the line written for a delivery to be repeated
ResendLine(err) == "RESEND:\t" \o err \o "\n"

\* a deliver that takes every failed delivery for final
deliverNoResend(statusfp, met) ==
    IF met.readErr # NoErr THEN [status |-> statusfp, err |-> met.readErr]
    ELSE IF met.decodeErr # NoErr THEN [status |-> statusfp, err |-> met.decodeErr]
    ELSE IF met.deliverErr # NoErr THEN [status |-> statusfp, err |-> met.deliverErr]
    ELSE [status |-> statusfp, err |-> NoErr]

\* the status lines after the call, and the error returned
deliver(statusfp, met) ==
    IF met.readErr # NoErr THEN [status |-> statusfp, err |-> met.readErr]
    ELSE IF met.decodeErr # NoErr THEN [status |-> statusfp, err |-> met.decodeErr]
    ELSE IF met.deliverErr # NoErr
    THEN IF met.resend
         THEN [status |-> Append(statusfp, ResendLine(met.deliverErr)), err |-> NoErr]
         ELSE [status |-> statusfp, err |-> met.deliverErr]
    ELSE [status |-> statusfp, err |-> NoErr]

CallDeliver ==
    \E met \in Meets :
        /\ delivery.n < MaxDeliveries
        /\ status' = deliver(status, met).status
        /\ delivery' = [met |-> met, err |-> deliver(status, met).err, n |-> delivery.n + 1]
        /\ UNCHANGED equal
        /\ UNCHANGED ctrlVars
        /\ UNCHANGED storeVars
        /\ UNCHANGED engineVars

DeliverInit ==
    /\ StoreInit

DeliverNext ==
    \/ CallDeliver

SpecDeliver == DeliverInit /\ [][DeliverNext]_vars

\* the call read and decoded its input, and the delivery failed
DeliveryFailed(met) ==
    met.readErr = NoErr /\ met.decodeErr = NoErr /\ met.deliverErr # NoErr

\* C20: deliver writes one "RESEND:" line and returns no error for a failed
\* delivery that is flagged Resend; for every other failed delivery, and for
\* a read or decode failure, it returns an error and writes no line; for a
\* successful delivery it returns nil and writes nothing.
C20_Resend ==
    [][delivery'.n # delivery.n =>
        LET met == delivery'.met
        IN  IF DeliveryFailed(met) /\ met.resend
            THEN /\ delivery'.err = NoErr
                 /\ status' = Append(status, "RESEND:\t" \o met.deliverErr \o "\n")
            ELSE IF met.readErr # NoErr \/ met.decodeErr # NoErr \/ met.deliverErr # NoErr
            THEN delivery'.err # NoErr /\ status' = status
            ELSE delivery'.err = NoErr /\ status' = status]_vars

C20_Witness ==
    /\ delivery.n = 3
    /\ DeliveryFailed(delivery.met)
    /\ delivery.met.resend
    /\ delivery.err = NoErr
    /\ Len(status) = 2
    /\ status[2] = "RESEND:\t" \o delivery.met.deliverErr \o "\n"
    /\ status[1] # status[2]

(***************************************************************************)
(* mutectrl: the --id option of the commands and the active user ID.       *)
(***************************************************************************)
\* the commands that declare idFlag (msg add declares it as "from, id"), by
\* the check their Before function makes on it
MandatoryIDCommands == {"uid new", "uid edit", "uid switch", "uid delete"}
AllIDCommands == {"msg send", "msg fetch"}
ActiveIDCommands ==
    {"contact add", "contact edit", "contact remove", "contact block",
     "contact unblock", "contact list", "contact blacklist",
     "msg add", "msg list", "msg read", "msg delete",
     "upkeep all", "upkeep accounts"}
IDCommands == MandatoryIDCommands \cup AllIDCommands \cup ActiveIDCommands

ErrSuperfluous == "superfluous argument(s)"
ErrIDMandatory == "option --id is mandatory"
ErrFromMandatory == "option --from is mandatory"

\* a cli.Context: c.IsSet("id"), c.String("id") and c.IsSet("all"); an
\* option that is not set reads as the empty string
Context(isSet, id, all) == [isSet |-> isSet, id |-> id, all |-> all]
Contexts(name) ==
    {Context(FALSE, "", all) : all \in IF name \in AllIDCommands THEN BOOLEAN ELSE {FALSE}}
    \cup {Context(TRUE, id, all) : id \in {"", Alice, Bob},
                                   all \in IF name \in AllIDCommands THEN BOOLEAN ELSE {FALSE}}

\* what a command meets: arguments after the options, the error of the
\* remaining checks and of prepare, and the error of reading the active UID
Mets ==
    [args : BOOLEAN,
     prepareErr : {NoErr, "prepare failed"},
     getValueErr : {NoErr, "msgdb: closed"}]

\* CtrlEngine.getID: the ID of a command, or a panic
getID(c, interactive, active, met) ==
    IF c.id = "" /\ interactive
    THEN IF met.getValueErr # NoErr
         THEN [panics |-> TRUE, id |-> ""]
         ELSE [panics |-> FALSE, id |-> active]
    ELSE [panics |-> FALSE, id |-> c.id]

\* the Before function of a command: the error that keeps its action from
\* running, or nil
Before(name, c, interactive, met) ==
    IF met.args THEN ErrSuperfluous
    ELSE IF name \in MandatoryIDCommands /\ ~c.isSet THEN ErrIDMandatory
    ELSE IF name \in AllIDCommands /\ ~interactive /\ ~c.all /\ ~c.isSet THEN ErrIDMandatory
    ELSE IF name = "msg add" /\ ~interactive /\ ~c.isSet THEN ErrFromMandatory
    ELSE IF name \in ActiveIDCommands /\ name # "msg add" /\ ~interactive /\ ~c.isSet
    THEN ErrIDMandatory
    ELSE met.prepareErr

\* the ID the action of a command hands on
ActionID(name, c, interactive, active, met) ==
    IF name \in MandatoryIDCommands
    THEN [panics |-> FALSE, id |-> c.id]
    ELSE getID(c, interactive, active, met)

\* cli.App.Run of one command: its Before function, and its action unless
\* Before returned an error
RunCommand(name, c, interactive, active, met) ==
    [name |-> name, c |-> c, interactive |-> interactive, active |-> active,
     called |-> TRUE,
     err |-> Before(name, c, interactive, met),
     ran |-> Before(name, c, interactive, met) = NoErr,
     panics |-> /\ Before(name, c, interactive, met) = NoErr
                /\ ActionID(name, c, interactive, active, met).panics,
     id |-> IF Before(name, c, interactive, met) = NoErr
            THEN ActionID(name, c, interactive, active, met).id
            ELSE ""]

CallCommand ==
    \E name \in IDCommands, interactive \in BOOLEAN, active \in {"", Alice, Bob}, met \in Mets :
        \E c \in Contexts(name) :
            /\ cmd' = RunCommand(name, c, interactive, active, met)
            /\ UNCHANGED <<status, delivery, equal, update, engine, keyinit, shell, ctrl>>
            /\ UNCHANGED storeVars
            /\ UNCHANGED engineVars

CommandInit ==
    /\ StoreInit

CommandNext ==
    \/ CallCommand

SpecCommand == CommandInit /\ [][CommandNext]_vars

\* C21: in interactive mode, every command that takes --id uses the active
\* user ID when --id is not given and the explicit value when it is given;
\* outside interactive mode a missing --id is rejected before the action of
\* the command runs.
C21_ActiveID ==
    (cmd.called /\ cmd.name \in IDCommands) =>
        /\ (cmd.interactive /\ cmd.ran /\ ~cmd.panics) =>
                cmd.id = IF cmd.c.isSet /\ cmd.c.id # "" THEN cmd.c.id ELSE cmd.active
        /\ (cmd.interactive /\ ~cmd.c.isSet /\ cmd.err # NoErr) =>
                cmd.err \notin {ErrIDMandatory, ErrFromMandatory}
        /\ (~cmd.interactive /\ ~cmd.c.isSet) =>
                (~cmd.ran /\ cmd.err # NoErr)

(***************************************************************************)
(* CtrlEngine.checkUpdates: the release of the binary against the release  *)
(* the server announces.                                                   *)
(***************************************************************************)
\* def.UpdateDuration, two weeks, in hours
UpdateDuration == 336

\* the messages of checkUpdates, the command in them without its quotes
ErrParse == "parsing time: cannot parse"
ErrOutdated == "ctrlengine: software is outdated, you have to update with mutectrl upkeep update"
AvailableLine == "ctrlengine: software available, please update with mutectrl upkeep update\n"

\* a date in the layout git.Date: the hour on the wall clock and the offset
\* of its time zone in hours; or a string that is not such a date
Date(wall, zone) == [ok |-> TRUE, wall |-> wall, zone |-> zone]
NoDate == [ok |-> FALSE, wall |-> 0, zone |-> 0]

\* time.Parse(git.Date, s) and UTC(): the instant, in hours
Parse(s) ==
    IF s.ok
    THEN [err |-> NoErr, t |-> s.wall - s.zone]
    ELSE [err |-> ErrParse, t |-> 0]

\* a release: release.Commit and release.Date
Release(commit, date) == [Commit |-> commit, Date |-> date]

\* a checkUpdates that enforces the update from UpdateDuration on
checkUpdatesFromDuration(binary, config) ==
    IF binary.Commit # config.Commit
    THEN IF Parse(config.Date).err # NoErr
         THEN [err |-> Parse(config.Date).err, wrote |-> <<>>]
         ELSE IF Parse(binary.Date).err # NoErr
         THEN [err |-> Parse(binary.Date).err, wrote |-> <<>>]
         ELSE IF ~(Parse(binary.Date).t < Parse(config.Date).t)
         THEN [err |-> NoErr, wrote |-> <<>>]
         ELSE IF Parse(binary.Date).t + UpdateDuration <= Parse(config.Date).t
         THEN [err |-> ErrOutdated, wrote |-> <<>>]
         ELSE [err |-> NoErr, wrote |-> <<AvailableLine>>]
    ELSE [err |-> NoErr, wrote |-> <<>>]

\* checkUpdates: the error returned and the lines written to StatusFP;
\* binary is the release compiled in, config the one the server announces
checkUpdates(binary, config) ==
    IF binary.Commit # config.Commit
    THEN IF Parse(config.Date).err # NoErr
         THEN [err |-> Parse(config.Date).err, wrote |-> <<>>]
         ELSE IF Parse(binary.Date).err # NoErr
         THEN [err |-> Parse(binary.Date).err, wrote |-> <<>>]
         ELSE IF ~(Parse(binary.Date).t < Parse(config.Date).t)
         THEN [err |-> NoErr, wrote |-> <<>>]
         ELSE IF Parse(binary.Date).t + UpdateDuration < Parse(config.Date).t
         THEN [err |-> ErrOutdated, wrote |-> <<>>]
         ELSE [err |-> NoErr, wrote |-> <<AvailableLine>>]
    ELSE [err |-> NoErr, wrote |-> <<>>]

Commits == {"c0ffee", "decade"}
BinaryDates == {NoDate} \cup {Date(w, z) : w \in {0, 1}, z \in {0, 1}}
ReleaseDates ==
    {NoDate}
    \cup {Date(w, z) : w \in {0, 1, UpdateDuration, UpdateDuration + 1, UpdateDuration + 2},
                       z \in {0 - 1, 0, 1}}

CallCheckUpdates ==
    \E cb \in Commits, cs \in Commits, db \in BinaryDates, ds \in ReleaseDates :
        /\ update' = [called |-> TRUE,
                      binary |-> Release(cb, db), config |-> Release(cs, ds),
                      err |-> checkUpdates(Release(cb, db), Release(cs, ds)).err,
                      wrote |-> checkUpdates(Release(cb, db), Release(cs, ds)).wrote]
        /\ UNCHANGED <<status, delivery, equal, cmd, engine, keyinit, shell, ctrl>>
        /\ UNCHANGED storeVars
        /\ UNCHANGED engineVars

UpdateInit ==
    /\ StoreInit

UpdateNext ==
    \/ CallCheckUpdates

SpecUpdate == UpdateInit /\ [][UpdateNext]_vars

\* the commits differ and both dates are dates
Comparable(u) ==
    /\ u.binary.Commit # u.config.Commit
    /\ u.binary.Date.ok
    /\ u.config.Date.ok

\* the instant of a date
Instant(d) == d.wall - d.zone

\* C22: checkUpdates returns the "software is outdated" error exactly when
\* the commit of the binary differs from the release commit of the server
\* and the date of the binary plus UpdateDuration is strictly before the
\* release date; if the binary is not older than the release it does
\* nothing, and if it is older by no more than UpdateDuration it writes the
\* notice to the user and returns nil.
C22_Outdated ==
    update.called =>
        /\ update.err = ErrOutdated <=>
                /\ Comparable(update)
                /\ Instant(update.binary.Date) + UpdateDuration < Instant(update.config.Date)
        /\ (Comparable(update) /\ Instant(update.binary.Date) >= Instant(update.config.Date)) =>
                (update.err = NoErr /\ update.wrote = <<>>)
        /\ (update.binary.Commit = update.config.Commit) =>
                (update.err = NoErr /\ update.wrote = <<>>)
        /\ (/\ Comparable(update)
            /\ Instant(update.binary.Date) < Instant(update.config.Date)
            /\ Instant(update.config.Date) <= Instant(update.binary.Date) + UpdateDuration) =>
                (update.err = NoErr /\ update.wrote = <<AvailableLine>>)

\* the binary is older than the release by UpdateDuration to the hour, in
\* another time zone, and the user is told without being forced
C22_Witness ==
    /\ update.called
    /\ Comparable(update)
    /\ update.binary.Date.zone # update.config.Date.zone
    /\ Instant(update.binary.Date) + UpdateDuration = Instant(update.config.Date)
    /\ update.err = NoErr
    /\ update.wrote = <<AvailableLine>>

(***************************************************************************)
(* The command engines (mutectrl, mutecrypt): the passphrase file pointer, *)
(* read by util.Readline when a command opens the database.                *)
(***************************************************************************)
\* the commands one engine process runs in its loop
MaxCommands == 3

ErrClosed == "read: file already closed"

\* what the passphrase file pointer yields while open: a line, an empty
\* line, nothing at all (a nil slice), or a read error
Lines == {NilBytes, Bytes(""), Bytes("secret"), Bytes("wrong")}

\* what a command meets: the outcome of the first-time initialisation, the
\* passphrase input, the outcome of opening the database and of the steps
\* after it, and the --keyserver flag
EngineMets ==
    [initErr : {NoErr, "mkdir: permission denied"},
     line : Lines,
     readErr : {NoErr, "read: input/output error"},
     openErr : {NoErr, "file is encrypted or is not a database"},
     laterErr : {NoErr, "ctrlengine: cannot fetch config"},
     keyserver : BOOLEAN]

\* util.Readline: reads one line and closes the file pointer; on a closed
\* file pointer the read fails
Readline(fp, met) ==
    IF fp = "closed" THEN [fp |-> "closed", line |-> NilBytes, err |-> ErrClosed]
    ELSE IF met.readErr # NoErr THEN [fp |-> "closed", line |-> NilBytes, err |-> met.readErr]
    ELSE [fp |-> "closed", line |-> met.line, err |-> NoErr]

\* the engine after a Readline call on its passphrase file pointer
AfterReadline(e, met) ==
    [e EXCEPT !.fp = Readline(e.fp, met).fp, !.readlines = e.readlines + 1]

\* CtrlEngine.openMsgDB: reads the passphrase unless the engine holds one,
\* then opens the message database
openMsgDB(e, met) ==
    IF e.passphrase.isNil
    THEN IF Readline(e.fp, met).err # NoErr
         THEN [AfterReadline(e, met) EXCEPT !.passphrase = NilBytes,
                                            !.err = Readline(e.fp, met).err]
         ELSE [AfterReadline(e, met) EXCEPT !.passphrase = Readline(e.fp, met).line,
                                            !.db = met.openErr = NoErr,
                                            !.handles = IF met.openErr = NoErr THEN @ + 1 ELSE @,
                                            !.err = met.openErr]
    ELSE [e EXCEPT !.db = met.openErr = NoErr,
                   !.handles = IF met.openErr = NoErr THEN @ + 1 ELSE @,
                   !.err = met.openErr]

\* CtrlEngine.prepare
ctrlPrepare(e, open, met) ==
    IF ~e.prepared /\ met.initErr # NoErr THEN [e EXCEPT !.err = met.initErr]
    ELSE IF ~open THEN [e EXCEPT !.prepared = TRUE, !.err = NoErr]
    ELSE IF ~e.db
    THEN IF openMsgDB([e EXCEPT !.prepared = TRUE], met).err # NoErr
         THEN openMsgDB([e EXCEPT !.prepared = TRUE], met)
         ELSE [openMsgDB([e EXCEPT !.prepared = TRUE], met) EXCEPT !.err = met.laterErr]
    ELSE [e EXCEPT !.prepared = TRUE, !.err = met.laterErr]

\* CryptEngine.openKeyDB: reads the passphrase, then opens the key database
openKeyDB(e, met) ==
    IF Readline(e.fp, met).err # NoErr
    THEN [AfterReadline(e, met) EXCEPT !.err = Readline(e.fp, met).err]
    ELSE [AfterReadline(e, met) EXCEPT !.db = met.openErr = NoErr,
                                       !.handles = IF met.openErr = NoErr THEN @ + 1 ELSE @,
                                       !.err = met.openErr]

\* CryptEngine.prepare
cryptPrepare(e, open, met) ==
    IF ~e.prepared /\ met.initErr # NoErr THEN [e EXCEPT !.err = met.initErr]
    ELSE IF open /\ ~e.db /\ ~met.keyserver
    THEN openKeyDB([e EXCEPT !.prepared = TRUE], met)
    ELSE [e EXCEPT !.prepared = TRUE, !.err = NoErr]

\* prepare of either engine
Prepare(e, open, met) ==
    IF e.kind = "ctrl" THEN ctrlPrepare(e, open, met) ELSE cryptPrepare(e, open, met)

\* a Close that leaves the database open
CloseLeavesOpen(e) ==
    [e EXCEPT !.looping = FALSE, !.exited = TRUE]

\* Close: the database closed (CtrlEngine.Close also zeroes the passphrase,
\* which stays non-nil)
Close(e) ==
    [e EXCEPT !.db = FALSE, !.handles = IF e.db THEN @ - 1 ELSE @,
              !.looping = FALSE, !.exited = TRUE]

\* cli.App.Run of one command: app.Before, then the Before function of the
\* command, which prepares the engine with or without the database
RunPrepared(e, open, met) ==
    IF Prepare(e, FALSE, met).err # NoErr
    THEN Prepare(e, FALSE, met)
    ELSE Prepare(Prepare(e, FALSE, met), open, met)

\* Start with one command on the command line: the command runs and the
\* process ends
StartCommand ==
    \E kind \in {"ctrl", "crypt"}, open \in BOOLEAN, met \in EngineMets :
        /\ ~engine.started
        /\ engine' = Close(RunPrepared([engine EXCEPT !.kind = kind, !.started = TRUE],
                                       open, met))
        /\ UNCHANGED <<status, delivery, equal, cmd, update, keyinit, shell, ctrl>>
        /\ UNCHANGED storeVars
        /\ UNCHANGED engineVars

\* Start without a command: app.Before, then app.Action, which enters the
\* loop; mutectrl opens the message database first and ends if that fails
StartLoop ==
    \E kind \in {"ctrl", "crypt"}, met \in EngineMets :
        /\ ~engine.started
        /\ \E e \in {RunPrepared([engine EXCEPT !.kind = kind, !.started = TRUE],
                                 kind = "ctrl", met)} :
                engine' = IF e.err # NoErr THEN Close(e) ELSE [e EXCEPT !.looping = TRUE]
        /\ UNCHANGED <<status, delivery, equal, cmd, update, keyinit, shell, ctrl>>
        /\ UNCHANGED storeVars
        /\ UNCHANGED engineVars

\* one command read in the loop; after a failed command the loop goes on
LoopCommand ==
    \E open \in BOOLEAN, met \in EngineMets :
        /\ engine.looping
        /\ engine.n < MaxCommands
        /\ engine' = [RunPrepared(engine, open, met) EXCEPT !.n = engine.n + 1]
        /\ UNCHANGED <<status, delivery, equal, cmd, update, keyinit, shell, ctrl>>
        /\ UNCHANGED storeVars
        /\ UNCHANGED engineVars

\* the quit command, or the end of the command input
Quit ==
    /\ engine.looping
    /\ engine' = Close(engine)
    /\ UNCHANGED <<status, delivery, equal, cmd, update, keyinit, shell, ctrl>>
    /\ UNCHANGED storeVars
    /\ UNCHANGED engineVars

PassphraseInit ==
    /\ StoreInit

PassphraseNext ==
    \/ StartCommand
    \/ StartLoop
    \/ LoopCommand
    \/ Quit

SpecPassphrase == PassphraseInit /\ [][PassphraseNext]_vars

\* C23: across any sequence of commands run by one engine process, Readline
\* is called at most once on the passphrase file pointer, also after a
\* command whose database open failed or whose passphrase line was empty.
C23_ReadlineOnce ==
    engine.readlines <= 1

(***************************************************************************)
(* Claims about the key store: deleted keys, failed calls, chain lengths.  *)
(***************************************************************************)
\* C24: once DelMessageKey has deleted the key at (session, chain, index),
\* no later operation of the key store, a StoreSession for the same session
\* key included, makes GetMessageKey succeed for that index again.
C24_DeletedForGood ==
    [][\A hash \in Hashes, sender \in BOOLEAN, msgIndex \in 0..MaxChain :
            <<SessionIndex(Alice, Bob, hash), sender, msgIndex>> \in gone =>
                GetMessageKey(ms', Alice, Bob, hash, sender, msgIndex).err # NoErr]_vars

\* the store with sessions and session states, and its keys deleted: two
\* sessions, one with full chains and one with a single key in each chain
DeleteInputs ==
    {<<Alice, "H1", <<Keys("Ks", MaxChain), Keys("Kr", MaxChain)>>>>,
     <<Alice, "H2", <<Keys("Ks", 1), Keys("Kr", 1)>>>>}

DeleteNext ==
    \/ StoreSessionOf(DeleteInputs)
    \/ SetState({<<Alice, Bob>>})
    \/ CallDelMessageKey

SpecDelete == StoreInit /\ [][DeleteNext]_vars

\* the last call was DelMessageKey for the session under h
RetIsDel(h) == ret.op = "DelMessageKey" /\ ret.index = SessionIndex(Alice, Bob, h)

\* the chain a call selects in a session, and the other one
Selected(s, sender) == IF sender THEN s.send ELSE s.recv
Other(s, sender) == IF sender THEN s.recv ELSE s.send

\* C25: DelMessageKey(session, sender, i) changes only the key at index i of
\* the selected chain: the other chain, all other indices, the root key
\* hash, the chain key, NumMessageKeys, all other sessions and all session
\* states are unchanged; deleting a key already deleted succeeds and changes
\* nothing; a failing call changes nothing.
C25_DeleteOnlyOne ==
    [][\A h \in Hashes :
        (ret'.n # ret.n /\ ret'.op = "DelMessageKey"
            /\ ret'.index = SessionIndex(Alice, Bob, h)) =>
        IF ret'.err # NoErr THEN ms' = ms
        ELSE LET index == ret'.index
                 i == ret'.msgIndex + 1
             IN  /\ DOMAIN ms'.sessions = DOMAIN ms.sessions
                 /\ \A k \in DOMAIN ms.sessions \ {index} : ms'.sessions[k] = ms.sessions[k]
                 /\ ms'.sessionStates = ms.sessionStates
                 /\ \A t \in Pairs : GetSessionState(ms', t[1], t[2]).val
                                        = GetSessionState(ms, t[1], t[2]).val
                 /\ ms'.privateKeyEntryMap = ms.privateKeyEntryMap
                 /\ ms'.publicKeyEntryMap = ms.publicKeyEntryMap
                 /\ SenderSessionPubHash(ms') = SenderSessionPubHash(ms)
                 /\ ms'.sessions[index].rootKeyHash = ms.sessions[index].rootKeyHash
                 /\ ms'.sessions[index].chainKey = ms.sessions[index].chainKey
                 /\ \A g \in Hashes :
                        /\ NumMessageKeys(ms', Alice, Bob, g).val
                                = NumMessageKeys(ms, Alice, Bob, g).val
                        /\ NumMessageKeys(ms', Alice, Bob, g).err
                                = NumMessageKeys(ms, Alice, Bob, g).err
                 /\ Other(ms'.sessions[index], ret'.sender)
                        = Other(ms.sessions[index], ret'.sender)
                 /\ Len(Selected(ms'.sessions[index], ret'.sender))
                        = Len(Selected(ms.sessions[index], ret'.sender))
                 /\ \A j \in 1..Len(Selected(ms.sessions[index], ret'.sender)) :
                        Selected(ms'.sessions[index], ret'.sender)[j]
                            = IF j = i THEN ""
                              ELSE Selected(ms.sessions[index], ret'.sender)[j]
                 /\ Selected(ms.sessions[index], ret'.sender)[i] = "" => ms' = ms]_vars

\* a key of the full session is deleted a second time, with the other
\* session and a session state in the store and the other chain untouched
C25_Witness ==
    /\ RetIsDel("H1")
    /\ ret.err = NoErr
    /\ ret.sender
    /\ ret.msgIndex = 1
    /\ <<ret.index, TRUE, 1>> \in gone
    /\ HasSession(ms, Alice, Bob, "H2")
    /\ ~LastSet(<<Alice, Bob>>).isNil
    /\ GetSessionState(ms, Alice, Bob).val = LastSet(<<Alice, Bob>>)
    /\ ms.sessions[ret.index].send = <<"Ks0", "">>
    /\ ms.sessions[ret.index].recv = Keys("Kr", MaxChain)

\* the last call was StoreSession and it failed
RetStoreFailed == ret.op = "StoreSession" /\ ret.err # NoErr

\* C26: a StoreSession call that fails, for an identity that is not mapped
\* or for len(send) # len(recv), leaves the store unchanged: no session is
\* created or replaced, HasSession is unchanged, and SenderSessionPubHash
\* still returns the hash of the last successful StoreSession (a successful
\* call sets it to its own hash).
C26_FailedStoreSession ==
    [][(ret'.n # ret.n /\ ret'.op = "StoreSession") =>
        IF ret'.err # NoErr
        THEN /\ ret'.err \in {ErrNotMapped, ErrLenMismatch}
             /\ ms'.sessions = ms.sessions
             /\ \A id \in {Alice, Unmapped}, h \in Hashes :
                    HasSession(ms', id, Bob, h) = HasSession(ms, id, Bob, h)
             /\ SenderSessionPubHash(ms') = SenderSessionPubHash(ms)
             /\ ms' = ms
        ELSE \E h \in Hashes :
                /\ ret'.index = SessionIndex(Alice, Bob, h)
                /\ SenderSessionPubHash(ms') = h
                /\ HasSession(ms', Alice, Bob, h)]_vars

\* StoreSession for the first session fails on the lengths of the chains
\* after the second session was stored last, with a key of the first deleted
C26_Witness ==
    /\ RetStoreFailed
    /\ ret.err = ErrLenMismatch
    /\ ret.index = SessionIndex(Alice, Bob, "H1")
    /\ SenderSessionPubHash(ms) = "H2"
    /\ HasSession(ms, Alice, Bob, "H1")
    /\ HasSession(ms, Alice, Bob, "H2")
    /\ <<SessionIndex(Alice, Bob, "H1"), TRUE, 0>> \in gone
    /\ ms.sessions[SessionIndex(Alice, Bob, "H1")].send[1] = ""

\* C27: every session held by the key store has exactly NumOfFutureKeys
\* send-key slots and exactly NumOfFutureKeys recv-key slots, after any
\* sequence of StoreSession and DelMessageKey calls.
C27_FiftySlots ==
    \A index \in DOMAIN ms.sessions :
        /\ Len(ms.sessions[index].send) = NumOfFutureKeys
        /\ Len(ms.sessions[index].recv) = NumOfFutureKeys

(***************************************************************************)
(* uid: KeyInit messages (src/uid/keyinit.go): Message.KeyInit makes one,  *)
(* KeyInit.Check and KeyInit.Verify examine it.                            *)
(***************************************************************************)
\* the number of seconds NOTAFTER can be in the future: 90 days
MaxNotAfter == 7776000
ProtocolVersion == "1.0"

ErrInvalidTimes == "uid: NOTBEFORE >= NOTAFTER"
ErrExpired == "uid: NOTAFTER has expired"
ErrFuture == "uid: NOTAFTER is too far in the future"
ErrRepoURI == "uid: REPOURI does not match"
ErrWrongSigKeyHash == "uid: SIGKEYHASH does not match"
ErrSessionAnchor == "uid: SESSIONANCHORHASH does not match"
ErrKeyEntryNotFound == "uid: KeyEntry not found"
ErrInvalidKeyInitSig == "uid: KeyInit signature is invalid"
ErrRepoURIDiffers == "uri: repoURI differs from msg.UIDContent.REPOURIS[0]"
ErrBase64 == "illegal base64 data"
ErrRand == "rand: read failed"
ErrUnmarshal == "invalid character"
ErrMsgCount == "uid: ki.Contents.MSGCOUNT must be 0"
ErrUnknownVersion == "uid: unknown ki.Contents.VERSION"

\* cipher.SHA512, and base64.Decode on the strings of the model, each the
\* encoding of its own name unless it is undecodable
SHA512(x) == "sha512(" \o x \o ")"
Decode(s) ==
    IF Base64DecodeErr(s) THEN [err |-> ErrBase64, val |-> ""]
    ELSE [err |-> NoErr, val |-> s]

\* a UID message: its signature key and its KeyInit repositories
SigPubKey(id) == "sigkey:" \o id
Message(id, hash) ==
    [identity |-> id,
     SIGKEY |-> [HASH |-> hash, PUBKEY |-> SigPubKey(id)],
     REPOURIS |-> <<"mute.berlin">>]
\* uid.Create: SIGKEY.HASH is the hash of the public signature key
Create(id) == Message(id, SHA512(SigPubKey(id)))

\* a session anchor, its JSON encoding hashed, and the anchor encrypted
\* under a key: decrypting with another key yields no JSON
NoAnchor == [MIXADDRESS |-> "", NYMADDRESS |-> "", PFKEYS |-> <<>>]
SessionAnchor(mixaddress, nymaddress, function, n) ==
    [MIXADDRESS |-> mixaddress, NYMADDRESS |-> nymaddress,
     PFKEYS |-> <<[FUNCTION |-> function, entry |-> KeyEntry(n)]>>]
AnchorHash(sa) ==
    SHA512(sa.MIXADDRESS \o "," \o sa.NYMADDRESS \o ","
           \o (IF Len(sa.PFKEYS) = 0 THEN ""
               ELSE sa.PFKEYS[1].FUNCTION \o ":" \o sa.PFKEYS[1].entry.HASH))
CTREncrypt(key, sa) == [b64 |-> TRUE, key |-> key, sa |-> sa]
CTRDecrypt(key, enc) ==
    IF enc.key = key THEN [err |-> NoErr, sa |-> enc.sa]
    ELSE [err |-> ErrUnmarshal, sa |-> NoAnchor]

\* the contents of a KeyInit message and the message; the signature names
\* the key that made it and the contents it was made over
Contents(version, msgcount, notafter, notbefore, fallback, sigkeyhash, repouri, anchor, anchorhash) ==
    [VERSION |-> version, MSGCOUNT |-> msgcount, NOTAFTER |-> notafter,
     NOTBEFORE |-> notbefore, FALLBACK |-> fallback, SIGKEYHASH |-> sigkeyhash,
     REPOURI |-> repouri, SESSIONANCHOR |-> anchor, SESSIONANCHORHASH |-> anchorhash]
NoContents == Contents("", 0, 0, 0, FALSE, "", "", CTREncrypt("", NoAnchor), "")
KeySign(pubkey, contents) == [b64 |-> TRUE, signer |-> pubkey, contents |-> contents]
NoKeyInitMessage ==
    [isNil |-> TRUE, Contents |-> NoContents, SIGNATURE |-> KeySign("", NoContents)]
KeyInitMessage(contents, signature) ==
    [isNil |-> FALSE, Contents |-> contents, SIGNATURE |-> signature]

\* Message.sessionAnchor: a session anchor with a fresh ECDHE25519 key,
\* encrypted, with its hash, the hash of the key and the private key
sessionAnchor(msg, key, mixaddress, nymaddress, met) ==
    IF met.randErr THEN [err |-> ErrRand, sa |-> CTREncrypt("", NoAnchor), sah |-> "",
                         pubKeyHash |-> "", privateKey |-> ""]
    ELSE [err |-> NoErr,
          sa |-> CTREncrypt(key, SessionAnchor(mixaddress, nymaddress, "ECDHE25519", 1)),
          sah |-> AnchorHash(SessionAnchor(mixaddress, nymaddress, "ECDHE25519", 1)),
          pubKeyHash |-> KeyEntry(1).HASH,
          privateKey |-> "private:" \o KeyEntry(1).HASH]

\* what a call returns: the KeyInit message or nil, the hash of the public
\* key, the private key, and the error
KeyInitResult(ki, pubKeyHash, privateKey, err) ==
    [ki |-> ki, pubKeyHash |-> pubKeyHash, privateKey |-> privateKey, err |-> err]
KeyInitError(err) == KeyInitResult(NoKeyInitMessage, "", "", err)

\* the KeyInit message signed by the signature key of msg
Signed(msg, contents) == KeyInitMessage(contents, KeySign(msg.SIGKEY.PUBKEY, contents))

\* Message.KeyInit past its time checks
KeyInitMake(msg, msgcount, notafter, notbefore, fallback, repoURI, mixaddress, nymaddress, met) ==
    IF Decode(msg.SIGKEY.HASH).err # NoErr THEN KeyInitError(Decode(msg.SIGKEY.HASH).err)
    ELSE IF repoURI # msg.REPOURIS[1] THEN KeyInitError(ErrRepoURIDiffers)
    ELSE \* the session anchor is encrypted under the decoded hash of SIGKEY
         LET a == sessionAnchor(msg, Decode(msg.SIGKEY.HASH).val, mixaddress, nymaddress, met)
         IN  IF a.err # NoErr THEN KeyInitError(a.err)
             ELSE KeyInitResult(
                     Signed(msg, Contents(ProtocolVersion, msgcount, notafter, notbefore,
                                          fallback, SHA512(Decode(msg.SIGKEY.HASH).val),
                                          repoURI, a.sa, a.sah)),
                     a.pubKeyHash, a.privateKey, NoErr)

\* Message.KeyInit that takes a NOTAFTER of this very second for expired
KeyInitExpiredNow(msg, msgcount, notafter, notbefore, fallback, repoURI, mixaddress, nymaddress, met) ==
    IF notbefore >= notafter THEN KeyInitError(ErrInvalidTimes)
    ELSE IF notafter <= met.now1 THEN KeyInitError(ErrExpired)
    ELSE IF notafter > met.now2 + MaxNotAfter THEN KeyInitError(ErrFuture)
    ELSE KeyInitMake(msg, msgcount, notafter, notbefore, fallback, repoURI,
                     mixaddress, nymaddress, met)

\* Message.KeyInit; met.now1 and met.now2 are the two readings of the clock
KeyInit(msg, msgcount, notafter, notbefore, fallback, repoURI, mixaddress, nymaddress, met) ==
    IF notbefore >= notafter THEN KeyInitError(ErrInvalidTimes)
    ELSE IF notafter < met.now1 THEN KeyInitError(ErrExpired)
    ELSE IF notafter > met.now2 + MaxNotAfter THEN KeyInitError(ErrFuture)
    ELSE KeyInitMake(msg, msgcount, notafter, notbefore, fallback, repoURI,
                     mixaddress, nymaddress, met)

\* KeyInit.checkV1_0 and KeyInit.Check
checkV1_0(ki) == IF ki.Contents.MSGCOUNT # 0 THEN ErrMsgCount ELSE NoErr
Check(ki) ==
    IF ki.Contents.VERSION # "1.0" THEN ErrUnknownVersion ELSE checkV1_0(ki)

\* KeyInit.SessionAnchor: the session anchor decrypted and verified
KeyInitSessionAnchor(ki, sigPubKey) ==
    IF Decode(sigPubKey).err # NoErr THEN [err |-> Decode(sigPubKey).err, sa |-> NoAnchor]
    ELSE IF ki.Contents.SIGKEYHASH # SHA512(SHA512(Decode(sigPubKey).val))
    THEN [err |-> ErrWrongSigKeyHash, sa |-> NoAnchor]
    ELSE IF ~ki.Contents.SESSIONANCHOR.b64 THEN [err |-> ErrBase64, sa |-> NoAnchor]
    ELSE IF CTRDecrypt(SHA512(Decode(sigPubKey).val), ki.Contents.SESSIONANCHOR).err # NoErr
    THEN [err |-> ErrUnmarshal, sa |-> NoAnchor]
    ELSE IF ki.Contents.SESSIONANCHORHASH
                # AnchorHash(CTRDecrypt(SHA512(Decode(sigPubKey).val), ki.Contents.SESSIONANCHOR).sa)
    THEN [err |-> ErrSessionAnchor, sa |-> NoAnchor]
    ELSE [err |-> NoErr,
          sa |-> CTRDecrypt(SHA512(Decode(sigPubKey).val), ki.Contents.SESSIONANCHOR).sa]

\* SessionAnchor.KeyEntry: the first key of the anchor for the function
AnchorKeyEntry(sa, function) ==
    IF \E i \in 1..Len(sa.PFKEYS) : sa.PFKEYS[i].FUNCTION = function
    THEN NoErr ELSE ErrKeyEntryNotFound

\* KeyInit.Verify; met.now is the clock, met.keyEntryErr what the check of
\* the key entry returns
Verify(ki, keyInitRepositoryURIs, sigPubKey, met) ==
    IF ki.Contents.REPOURI \notin keyInitRepositoryURIs THEN ErrRepoURI
    ELSE IF KeyInitSessionAnchor(ki, sigPubKey).err # NoErr
    THEN KeyInitSessionAnchor(ki, sigPubKey).err
    ELSE IF AnchorKeyEntry(KeyInitSessionAnchor(ki, sigPubKey).sa, "ECDHE25519") # NoErr
    THEN AnchorKeyEntry(KeyInitSessionAnchor(ki, sigPubKey).sa, "ECDHE25519")
    ELSE IF met.keyEntryErr # NoErr THEN met.keyEntryErr
    ELSE IF ki.Contents.NOTBEFORE >= ki.Contents.NOTAFTER THEN ErrInvalidTimes
    ELSE IF ki.Contents.NOTAFTER < met.now THEN ErrExpired
    ELSE IF ~ki.SIGNATURE.b64 THEN ErrBase64
    ELSE IF Decode(sigPubKey).err # NoErr THEN Decode(sigPubKey).err
    ELSE IF ~(/\ ki.SIGNATURE.signer = Decode(sigPubKey).val
              /\ ki.SIGNATURE.contents = ki.Contents)
    THEN ErrInvalidKeyInitSig
    ELSE NoErr

\* the clock when Message.KeyInit is called
Clock == 1500000000
Day == 86400

\* the arguments of Message.KeyInit and what the call meets
NotAfters ==
    {Clock - 1, Clock, Clock + 1, Clock + MaxNotAfter, Clock + MaxNotAfter + 1,
     Clock + MaxNotAfter + 2}
NotBefores == {Clock - Day, Clock, Clock + 1, Clock + MaxNotAfter + 2}
KeyInitMets == [now1 : {Clock}, now2 : {Clock, Clock + 1}, randErr : BOOLEAN]
Messages == {Create(Bob), Message(Bob, "!!")}

\* no Check and no Verify of the message yet
NoCheck == [called |-> FALSE, err |-> NoErr]
NoVerify == [called |-> FALSE, err |-> NoErr, now |-> 0, ki |-> NoKeyInitMessage]

CallKeyInit ==
    \E msg \in Messages, msgcount \in 0..1, notafter \in NotAfters, notbefore \in NotBefores,
       repoURI \in {"mute.berlin", "keys.example.org"}, met \in KeyInitMets :
        \E r \in {KeyInit(msg, msgcount, notafter, notbefore, FALSE, repoURI,
                          "mix.mute.berlin", NymAddress, met)} :
            /\ keyinit' = [op |-> "KeyInit", called |-> TRUE,
                           msgcount |-> msgcount, notafter |-> notafter,
                           notbefore |-> notbefore, met |-> met,
                           ki |-> r.ki, err |-> r.err,
                           check |-> NoCheck, verify |-> NoVerify]
            /\ UNCHANGED <<status, delivery, equal, cmd, update, engine, shell, ctrl>>
            /\ UNCHANGED storeVars
            /\ UNCHANGED engineVars

\* the message made is checked
CallCheck ==
    /\ keyinit.called
    /\ ~keyinit.ki.isNil
    /\ keyinit' = [keyinit EXCEPT !.check = [called |-> TRUE, err |-> Check(keyinit.ki)]]
    /\ UNCHANGED <<status, delivery, equal, cmd, update, engine, shell, ctrl>>
    /\ UNCHANGED storeVars
    /\ UNCHANGED engineVars

\* the message as the verifier receives it: as made, or with a field changed
AsReceived(ki, change) ==
    CASE change = "repouri" -> [ki EXCEPT !.Contents.REPOURI = "keys.example.org"]
      [] change = "msgcount" -> [ki EXCEPT !.Contents.MSGCOUNT = ki.Contents.MSGCOUNT + 1]
      [] change = "anchorhash" -> [ki EXCEPT !.Contents.SESSIONANCHORHASH = SHA512("")]
      [] change = "times" -> Signed(Create(Bob), [ki.Contents EXCEPT !.NOTBEFORE = ki.Contents.NOTAFTER])
      [] OTHER -> ki

\* the message made is verified, at once or later
CallVerify ==
    \E change \in {"none", "repouri", "msgcount", "anchorhash", "times"},
       sigPubKey \in {SigPubKey(Bob), SigPubKey(Alice), "!!"},
       now \in {Clock, Clock + 2, Clock + MaxNotAfter + 3},
       keyEntryErr \in {NoErr, "uid: key entry invalid"} :
        /\ keyinit.called
        /\ ~keyinit.ki.isNil
        /\ keyinit' = [keyinit EXCEPT !.verify =
                [called |-> TRUE,
                 err |-> Verify(AsReceived(keyinit.ki, change), {"mute.berlin"}, sigPubKey,
                                [now |-> now, keyEntryErr |-> keyEntryErr]),
                 now |-> now,
                 ki |-> AsReceived(keyinit.ki, change)]]
        /\ UNCHANGED <<status, delivery, equal, cmd, update, engine, shell, ctrl>>
        /\ UNCHANGED storeVars
        /\ UNCHANGED engineVars

KeyInitInit ==
    /\ StoreInit

KeyInitNext ==
    \/ CallKeyInit
    \/ CallCheck
    \/ CallVerify

SpecKeyInit == KeyInitInit /\ [][KeyInitNext]_vars

\* C28: Message.KeyInit produces a KeyInit only when notbefore < notafter
\* and now <= notafter <= now + MaxNotAfter, now being the clock as each
\* check reads it; otherwise it returns, in this order of precedence,
\* ErrInvalidTimes (notbefore >= notafter), ErrExpired (notafter < now) or
\* ErrFuture (notafter > now + MaxNotAfter), and no KeyInit.
C28_TimeChecks ==
    keyinit.called =>
        /\ keyinit.err # NoErr <=> keyinit.ki.isNil
        /\ ~keyinit.ki.isNil =>
                /\ keyinit.notbefore < keyinit.notafter
                /\ keyinit.met.now1 <= keyinit.notafter
                /\ keyinit.notafter <= keyinit.met.now2 + MaxNotAfter
        /\ keyinit.err = ErrInvalidTimes <=> keyinit.notbefore >= keyinit.notafter
        /\ keyinit.err = ErrExpired <=>
                /\ keyinit.notbefore < keyinit.notafter
                /\ keyinit.notafter < keyinit.met.now1
        /\ keyinit.err = ErrFuture <=>
                /\ keyinit.notbefore < keyinit.notafter
                /\ keyinit.notafter >= keyinit.met.now1
                /\ keyinit.notafter > keyinit.met.now2 + MaxNotAfter

\* a KeyInit is made whose NOTAFTER is this very second, and checked
C28_Witness ==
    /\ keyinit.called
    /\ ~keyinit.ki.isNil
    /\ keyinit.err = NoErr
    /\ keyinit.ki.Contents.NOTAFTER = keyinit.met.now1
    /\ keyinit.ki.Contents.NOTBEFORE = Clock - Day
    /\ keyinit.check.called

\* C29: KeyInit.Verify accepts a KeyInit only while the current time lies
\* within its validity window: it rejects a KeyInit whose NOTAFTER is in the
\* past and also one whose NOTBEFORE is still in the future.
C29_VerifyWindow ==
    (keyinit.called /\ keyinit.verify.called /\ keyinit.verify.err = NoErr) =>
        /\ keyinit.verify.ki.Contents.NOTBEFORE <= keyinit.verify.now
        /\ keyinit.verify.now <= keyinit.verify.ki.Contents.NOTAFTER

\* C30: every KeyInit message that Message.KeyInit produces, for any
\* msgcount the caller passes, passes KeyInit.Check().
C30_CheckPasses ==
    (keyinit.called /\ ~keyinit.ki.isNil /\ keyinit.check.called) =>
        keyinit.check.err = NoErr

(***************************************************************************)
(* The command loops of mutecrypt and mutectrl: Start, loop, the commands  *)
(* read from command-fd or from the prompt, the status lines, Close.       *)
(***************************************************************************)
\* the lines one loop reads, and the loops entered within one another
MaxLines == 3
MaxDepth == 2

ErrExit == "cryptengine: requests exit"
ErrUnknown == "unknown command 'foo', try 'help'"
ErrCommand == "decrypt: authentication failed"
ErrScanner == "cryptengine: read error"
ErrActive == "msgdb: cannot read active user ID"
ErrCloseDB == "keydb: close failed"

\* a command of the engine whose Before function opens the database
TheCommand(kind) == IF kind = "crypt" THEN "decrypt" ELSE "uid list"

\* the lines a loop reads: empty, blanks only, quit, a command, each command
\* also with a superfluous argument, and a command the app does not know
ShellLines(kind) ==
    {"", " ", "quit", "quit now", TheCommand(kind), TheCommand(kind) \o " now", "foo"}

HasArgs(line) == line \in {"quit now", "decrypt now", "uid list now"}

\* what a command in the loop meets; the engine is prepared by then
LoopMets ==
    {met \in EngineMets : met.initErr = NoErr /\ met.line = Bytes("secret") /\ ~met.keyserver}

\* fmt.Fprintln(ce.fileTable.StatusFP, line)
Write(s, line) == [s EXCEPT !.out = Append(@, line)]

\* fmt.Fprintln(ce.fileTable.StatusFP, "READY.")
Ready(s) == [Write(s, "READY.") EXCEPT !.owed = @ - 1]

\* util.Fatal: the process ends
Fatal(s, cause) == [s EXCEPT !.pc = "exited", !.cause = cause]

\* ce.app.Run(args) for arguments that are not empty: app.Before, then the
\* Before function of the command and its Action; a command the app does not
\* know runs app.Action, which in mutectrl prepares with the message database
\* and ends the process if that fails, and then calls the loop, which sets
\* ce.err and returns
Run(s, line, met, cmdErr) ==
    IF Prepare(s.e, FALSE, met).err # NoErr
    THEN [s EXCEPT !.e = Prepare(s.e, FALSE, met), !.run = Prepare(s.e, FALSE, met).err]
    ELSE IF line = "foo" /\ s.e.kind = "ctrl"
    THEN IF RunPrepared(s.e, TRUE, met).err # NoErr
         THEN Fatal([s EXCEPT !.e = RunPrepared(s.e, TRUE, met)], "fatal")
         ELSE [s EXCEPT !.e = RunPrepared(s.e, TRUE, met), !.run = NoErr, !.err = ErrUnknown]
    ELSE IF line = "foo"
    THEN [s EXCEPT !.e = Prepare(s.e, FALSE, met), !.run = NoErr, !.err = ErrUnknown]
    ELSE IF HasArgs(line)
    THEN [s EXCEPT !.e = Prepare(s.e, FALSE, met), !.run = ErrSuperfluous]
    ELSE IF line = "quit"
    THEN [s EXCEPT !.e = RunPrepared(s.e, FALSE, met), !.run = NoErr, !.err = ErrExit]
    ELSE IF RunPrepared(s.e, TRUE, met).err # NoErr
    THEN [s EXCEPT !.e = RunPrepared(s.e, TRUE, met), !.run = RunPrepared(s.e, TRUE, met).err]
    ELSE [s EXCEPT !.e = RunPrepared(s.e, TRUE, met), !.run = NoErr, !.err = cmdErr]

\* the loop after app.Run returned nil and no exit was requested: the error
\* of the command is written and cleared; mutecrypt then writes READY.
Answer(s) ==
    IF s.e.kind = "crypt"
    THEN IF s.err # NoErr THEN Ready([Write(s, s.err) EXCEPT !.err = NoErr]) ELSE Ready(s)
    ELSE IF s.err # NoErr THEN [Write(s, s.err) EXCEPT !.err = NoErr] ELSE s

\* CryptEngine.Close as Start defers it, with what keyDB.Close returns
Closed(s, closeErr) ==
    [s EXCEPT !.e = Close(s.e), !.closes = @ + 1,
              !.closeRet = IF s.e.db THEN closeErr ELSE NoErr]

\* Start after app.Run: it returns the error of app.Run, or else ce.err;
\* CryptEngine.Start closes the key database on its way out, CtrlEngine.Start
\* leaves Close to its caller
StartReturns(s, closeErr) ==
    IF s.e.kind = "crypt"
    THEN [Closed(s, closeErr) EXCEPT !.pc = "returned",
                                     !.ret = IF s.run # NoErr THEN s.run ELSE s.err]
    ELSE [s EXCEPT !.pc = "returned", !.ret = IF s.run # NoErr THEN s.run ELSE s.err]

\* the loop returns: from the outermost loop to Start, from a loop entered
\* by a blank line to the loop that read the line, which answers it
LoopReturn(s, cause, closeErr) ==
    IF s.depth = 1
    THEN StartReturns([s EXCEPT !.depth = 0, !.cause = cause], closeErr)
    ELSE Answer([s EXCEPT !.depth = @ - 1])

\* the loop after app.Run returned: an error of app.Run is written and the
\* loop continues; on errExit mutecrypt writes QUITTING, and the loop returns
AfterRun(s, closeErr) ==
    IF s.pc = "exited" THEN s
    ELSE IF s.run # NoErr THEN Write(s, s.run)
    ELSE IF s.err = ErrExit
    THEN LoopReturn([(IF s.e.kind = "crypt" THEN Write(s, "QUITTING") ELSE s)
                        EXCEPT !.err = NoErr, !.quits = @ + 1],
                    "quit", closeErr)
    ELSE Answer(s)

\* what Start meets before the loop: the first-time initialisation and, in
\* mutectrl, the message database and the configuration
StartMets ==
    {met \in EngineMets : met.line = Bytes("secret") /\ met.readErr = NoErr /\ ~met.keyserver}

\* Start without a command: app.Before, then app.Action; mutecrypt enters the
\* loop, mutectrl prepares with the message database first and ends the
\* process if that fails
Start(kind, met, closeErr) ==
    IF Prepare([NoEngine EXCEPT !.kind = kind, !.started = TRUE], FALSE, met).err # NoErr
    THEN StartReturns([NoShell EXCEPT
                          !.e = Prepare([NoEngine EXCEPT !.kind = kind, !.started = TRUE], FALSE, met),
                          !.run = Prepare([NoEngine EXCEPT !.kind = kind, !.started = TRUE], FALSE, met).err],
                      closeErr)
    ELSE IF kind = "crypt"
    THEN [NoShell EXCEPT !.e = Prepare([NoEngine EXCEPT !.kind = kind, !.started = TRUE], FALSE, met),
                         !.pc = "loop", !.depth = 1]
    ELSE IF RunPrepared([NoEngine EXCEPT !.kind = kind, !.started = TRUE], TRUE, met).err # NoErr
    THEN Fatal([NoShell EXCEPT !.e = RunPrepared([NoEngine EXCEPT !.kind = kind, !.started = TRUE], TRUE, met)], "")
    ELSE [NoShell EXCEPT !.e = RunPrepared([NoEngine EXCEPT !.kind = kind, !.started = TRUE], TRUE, met),
                         !.pc = "loop", !.depth = 1]

CallStart ==
    \E kind \in {"crypt", "ctrl"}, met \in StartMets, closeErr \in {NoErr, ErrCloseDB} :
        /\ shell.pc = "idle"
        /\ shell' = Start(kind, met, closeErr)
        /\ UNCHANGED <<status, delivery, equal, cmd, update, engine, keyinit, ctrl>>
        /\ UNCHANGED storeVars
        /\ UNCHANGED engineVars

\* Start with a command on the command line: the command runs, and Start
\* returns what came of it
StartWith(kind, line, met, cmdErr, closeErr) ==
    IF Run([NoShell EXCEPT !.e = [NoEngine EXCEPT !.kind = kind, !.started = TRUE], !.line = line],
           line, met, cmdErr).pc = "exited"
    THEN Fatal(Run([NoShell EXCEPT !.e = [NoEngine EXCEPT !.kind = kind, !.started = TRUE], !.line = line],
                   line, met, cmdErr), "")
    ELSE StartReturns(Run([NoShell EXCEPT !.e = [NoEngine EXCEPT !.kind = kind, !.started = TRUE], !.line = line],
                          line, met, cmdErr), closeErr)

CallStartWith ==
    \E kind \in {"crypt", "ctrl"}, met \in StartMets, cmdErr \in {NoErr, ErrCommand},
       closeErr \in {NoErr, ErrCloseDB} :
        \E line \in ShellLines(kind) \ {"", " "} :
            /\ shell.pc = "idle"
            /\ shell' = StartWith(kind, line, met, cmdErr, closeErr)
            /\ UNCHANGED <<status, delivery, equal, cmd, update, engine, keyinit, ctrl>>
            /\ UNCHANGED storeVars
            /\ UNCHANGED engineVars

\* a line as the loop has read it: counted, its status not yet written
Read(s, line) ==
    [s EXCEPT !.n = @ + 1, !.line = line, !.out = <<>>, !.run = NoErr,
              !.dispatched = IF line = "" THEN @ ELSE s.err,
              !.owed = IF s.e.kind = "crypt" /\ line \notin {"", "quit", "quit now"}
                       THEN @ + 1 ELSE @,
              !.afterQuit = @ \/ (s.quits > 0 /\ line # "")]

\* a line of blanks: strings.Fields yields no arguments, app.Run runs
\* app.Before and app.Action, and app.Action enters the loop once more
Blank(s, met) ==
    IF Prepare(s.e, FALSE, met).err # NoErr
    THEN Write([s EXCEPT !.e = Prepare(s.e, FALSE, met)], Prepare(s.e, FALSE, met).err)
    ELSE IF s.e.kind = "crypt"
    THEN [s EXCEPT !.e = Prepare(s.e, FALSE, met), !.depth = @ + 1]
    ELSE IF RunPrepared(s.e, TRUE, met).err # NoErr
    THEN Fatal([s EXCEPT !.e = RunPrepared(s.e, TRUE, met)], "fatal")
    ELSE [s EXCEPT !.e = RunPrepared(s.e, TRUE, met), !.depth = @ + 1]

\* one pass of the loop that reads a line: mutectrl first reads the active
\* user ID from the message database, ending the process if that fails, and
\* writes READY.; an empty line is skipped
Pass(s, line, met, cmdErr, activeErr, closeErr) ==
    IF s.e.kind = "ctrl" /\ activeErr # NoErr THEN Fatal(s, "fatal")
    ELSE IF line = "" THEN Read(s, line)
    ELSE IF line = " " THEN Blank(Read(s, line), met)
    ELSE AfterRun(Run(Read(s, line), line, met, cmdErr), closeErr)

LoopLine ==
    \E line \in ShellLines(shell.e.kind), met \in LoopMets, cmdErr \in {NoErr, ErrCommand},
       activeErr \in {NoErr, ErrActive}, closeErr \in {NoErr, ErrCloseDB} :
        /\ shell.pc = "loop"
        /\ shell.n < MaxLines
        /\ line = " " => shell.depth < MaxDepth
        /\ shell.e.kind = "crypt" => activeErr = NoErr
        /\ shell' = Pass(shell, line, met, cmdErr, activeErr, closeErr)
        /\ UNCHANGED <<status, delivery, equal, cmd, update, engine, keyinit, ctrl>>
        /\ UNCHANGED storeVars
        /\ UNCHANGED engineVars

\* the input ends: scanner.Scan returns false, with or without an error of
\* the scanner, in mutecrypt; line.Prompt returns an error in mutectrl
Ends(s, scanErr, closeErr) ==
    IF s.e.kind = "crypt"
    THEN LoopReturn([s EXCEPT !.out = <<>>, !.run = NoErr,
                              !.err = IF scanErr # NoErr THEN scanErr ELSE @],
                    "end of input", closeErr)
    ELSE LoopReturn([s EXCEPT !.out = <<>>, !.run = NoErr], "prompt error", closeErr)

EndOfInput ==
    \E scanErr \in {NoErr, ErrScanner}, closeErr \in {NoErr, ErrCloseDB} :
        /\ shell.pc = "loop"
        /\ shell.e.kind = "ctrl" => scanErr = NoErr
        /\ shell' = Ends(shell, scanErr, closeErr)
        /\ UNCHANGED <<status, delivery, equal, cmd, update, engine, keyinit, ctrl>>
        /\ UNCHANGED storeVars
        /\ UNCHANGED engineVars

\* the caller of Start closes the engine once more
CallClose ==
    \E closeErr \in {NoErr, ErrCloseDB} :
        /\ shell.pc = "returned"
        /\ shell.closes < 2
        /\ shell' = Closed(shell, closeErr)
        /\ UNCHANGED <<status, delivery, equal, cmd, update, engine, keyinit, ctrl>>
        /\ UNCHANGED storeVars
        /\ UNCHANGED engineVars

LoopInit ==
    /\ StoreInit

LoopNext ==
    \/ CallStart
    \/ CallStartWith
    \/ LoopLine
    \/ EndOfInput
    \/ CallClose

SpecLoop == LoopInit /\ [][LoopNext]_vars

\* C31: in the command loops of CryptEngine and CtrlEngine a failing command
\* never ends the loop and never leaks its error into the next command:
\* ce.err is nil whenever a command line is dispatched, and only quit, the
\* end of the input or a prompt error ends the loop.
C31_LoopGoesOn ==
    /\ shell.dispatched = NoErr
    /\ (shell.pc \in {"returned", "exited"} /\ shell.cause # "") =>
            shell.cause \in {"quit", "end of input", "prompt error"}

\* C32: when the quit command is processed in CryptEngine.loop, QUITTING is
\* written to status, no later command line is executed, ce.err is cleared,
\* and Start returns nil after closing the key database.
C32_QuitEnds ==
    (shell.e.kind = "crypt" /\ shell.quits > 0) =>
        /\ \E i \in DOMAIN shell.out : shell.out[i] = "QUITTING"
        /\ ~shell.afterQuit
        /\ shell.err = NoErr
        /\ shell.pc = "returned"
        /\ shell.ret = NoErr
        /\ ~shell.e.db
        /\ shell.closes >= 1

\* C33: in CryptEngine.loop every non-empty command line other than quit is
\* answered by exactly one READY. status line, written before the next
\* command line is read, whether the command succeeded or failed: while the
\* loop waits for a line, no READY. is owed and none was written in excess.
C33_ReadyOnce ==
    (shell.e.kind = "crypt" /\ shell.pc = "loop") => shell.owed = 0

\* C34: after CryptEngine.Start returns, on every path, the key database has
\* been closed and ce.keyDB is nil; the key database is never opened while
\* it is open, and a second Close does nothing and returns nil.
C34_KeyDBClosed ==
    shell.e.kind = "crypt" =>
        /\ shell.e.handles = (IF shell.e.db THEN 1 ELSE 0)
        /\ shell.pc = "returned" =>
                (~shell.e.db /\ shell.e.handles = 0 /\ shell.closes >= 1)
        /\ shell.closes >= 2 => shell.closeRet = NoErr

\* Start has returned after commands that had the key database open, and
\* the Close it deferred closed the database although keyDB.Close failed
C34_Witness ==
    /\ shell.e.kind = "crypt"
    /\ shell.pc = "returned"
    /\ shell.n >= 2
    /\ shell.closes = 1
    /\ shell.closeRet = ErrCloseDB
    /\ ~shell.e.db
    /\ shell.e.handles = 0

(***************************************************************************)
(* CtrlEngine.prepare with the configuration, the update check and the     *)
(* wallet, and CtrlEngine.Close.                                           *)
(***************************************************************************)
\* the prepare calls of one session
MaxPrepares == 2

ErrInitOffline == "ctrlengine: cannot fetch config in --offline mode, run without"
ErrOutdatedOffline == "ctrlengine: configuration is outdated, please run without --offline"
ErrNoConfigOffline == "ctrlengine: cannot fetch config in --offline mode"
InitFailedLine == "initialization failed, try to update config"
StaleLine == "ctrlengine: cannot fetch outdated config in --offline mode"
NoConfigLine == "no system config found"

\* what getConfig finds in the message DB: the read fails; no configuration;
\* one that does not unmarshal; one def.InitMute rejects; or a good one, and
\* then the time of the last fetch: unreadable, none, not a number, at most
\* FetchconfMinDuration ago (fresh), more than that and at most
\* FetchconfMaxDuration ago (stale), or more than FetchconfMaxDuration ago
Configs ==
    {"read error", "none", "unmarshal error", "init fails", "time read error",
     "no time", "bad time", "fresh", "stale", "outdated"}

\* what a prepare call meets
PrepareMets ==
    [initErr : {NoErr, "mkdir: permission denied"},
     openErr : {NoErr, "file is encrypted or is not a database"},
     config : Configs,
     fetchErr : {NoErr, "fetchconf: no route to host"},
     updateErr : {NoErr, ErrOutdated},
     wallet : {"ok", "no wallet key", "verify keys fail"}]

\* ce.upkeepFetchconf as getConfig calls it
Fetch(met, wrote) == [err |-> met.fetchErr, fetched |-> TRUE, wrote |-> wrote]

\* a getConfig that fetches a missing configuration also when offline
getConfigFetchesOffline(offline, met) ==
    IF met.config \in {"read error", "unmarshal error", "time read error", "bad time"}
    THEN [err |-> met.config, fetched |-> FALSE, wrote |-> <<>>]
    ELSE IF met.config = "none" THEN Fetch(met, <<NoConfigLine>>)
    ELSE IF met.config = "init fails"
    THEN IF offline
         THEN [err |-> ErrInitOffline, fetched |-> FALSE, wrote |-> <<InitFailedLine>>]
         ELSE Fetch(met, <<InitFailedLine>>)
    ELSE IF met.config \in {"no time", "fresh"}
    THEN [err |-> NoErr, fetched |-> FALSE, wrote |-> <<>>]
    ELSE IF ~offline THEN Fetch(met, <<>>)
    ELSE IF met.config = "outdated"
    THEN [err |-> ErrOutdatedOffline, fetched |-> FALSE, wrote |-> <<>>]
    ELSE [err |-> NoErr, fetched |-> FALSE, wrote |-> <<StaleLine>>]

\* CtrlEngine.getConfig
getConfig(offline, met) ==
    IF met.config \in {"read error", "unmarshal error", "time read error", "bad time"}
    THEN [err |-> met.config, fetched |-> FALSE, wrote |-> <<>>]
    ELSE IF met.config = "none"
    THEN IF offline
         THEN [err |-> ErrNoConfigOffline, fetched |-> FALSE, wrote |-> <<>>]
         ELSE Fetch(met, <<NoConfigLine>>)
    ELSE IF met.config = "init fails"
    THEN IF offline
         THEN [err |-> ErrInitOffline, fetched |-> FALSE, wrote |-> <<InitFailedLine>>]
         ELSE Fetch(met, <<InitFailedLine>>)
    ELSE IF met.config \in {"no time", "fresh"}
    THEN [err |-> NoErr, fetched |-> FALSE, wrote |-> <<>>]
    ELSE IF ~offline THEN Fetch(met, <<>>)
    ELSE IF met.config = "outdated"
    THEN [err |-> ErrOutdatedOffline, fetched |-> FALSE, wrote |-> <<>>]
    ELSE [err |-> NoErr, fetched |-> FALSE, wrote |-> <<StaleLine>>]

\* startWallet: a new client on the message DB, taken online unless offline;
\* on an error no client is returned
startWallet(ce, offline, met) ==
    IF met.wallet = "no wallet key"
    THEN [ce EXCEPT !.client = 0, !.last.err = met.wallet]
    ELSE IF offline
    THEN [ce EXCEPT !.client = ce.made + 1, !.made = @ + 1]
    ELSE IF met.wallet = "verify keys fail"
    THEN [ce EXCEPT !.client = 0, !.made = @ + 1, !.online = @ \cup {ce.made + 1},
                    !.last.wentOnline = TRUE, !.last.err = met.wallet]
    ELSE [ce EXCEPT !.client = ce.made + 1, !.made = @ + 1, !.online = @ \cup {ce.made + 1},
                    !.last.wentOnline = TRUE]

\* CtrlEngine.prepare after the first-time initialisation, with the message
\* DB to open: the DB is opened if it is not open, then the configuration,
\* the update check and the wallet
prepareDB(ce, offline, check, met) ==
    IF ~ce.db /\ met.openErr # NoErr THEN [ce EXCEPT !.last.err = met.openErr]
    ELSE IF getConfig(offline, met).err # NoErr
    THEN [ce EXCEPT !.db = TRUE, !.last.err = getConfig(offline, met).err,
                    !.last.fetched = getConfig(offline, met).fetched,
                    !.last.wrote = getConfig(offline, met).wrote]
    ELSE IF check /\ met.updateErr # NoErr
    THEN [ce EXCEPT !.db = TRUE, !.last.err = met.updateErr,
                    !.last.fetched = getConfig(offline, met).fetched,
                    !.last.wrote = getConfig(offline, met).wrote]
    ELSE startWallet([ce EXCEPT !.db = TRUE,
                                !.last.fetched = getConfig(offline, met).fetched,
                                !.last.wrote = getConfig(offline, met).wrote],
                     offline, met)

\* CtrlEngine.prepare
prepare(ce, offline, open, check, met) ==
    IF ~ce.prepared /\ met.initErr # NoErr
    THEN [ce EXCEPT !.n = @ + 1,
                    !.last = [NoPrepare EXCEPT !.called = TRUE, !.offline = offline,
                                               !.openMsgDB = open, !.checkUpdates = check,
                                               !.config = met.config, !.err = met.initErr]]
    ELSE IF ~open
    THEN [ce EXCEPT !.prepared = TRUE, !.n = @ + 1,
                    !.last = [NoPrepare EXCEPT !.called = TRUE, !.offline = offline,
                                               !.openMsgDB = open, !.checkUpdates = check,
                                               !.config = met.config]]
    ELSE prepareDB([ce EXCEPT !.prepared = TRUE, !.n = @ + 1,
                              !.last = [NoPrepare EXCEPT !.called = TRUE, !.offline = offline,
                                                         !.openMsgDB = open,
                                                         !.checkUpdates = check,
                                                         !.config = met.config]],
                   offline, check, met)

\* CtrlEngine.Close: with a message DB open, ce.client is taken offline if
\* there is one, and the DB is closed
CtrlEngineClose(ce) ==
    IF ce.db
    THEN [ce EXCEPT !.online = @ \ {ce.client}, !.left = ce.online \ {ce.client},
                    !.db = FALSE, !.closed = TRUE]
    ELSE [ce EXCEPT !.closed = TRUE]

CallPrepare ==
    \E offline \in BOOLEAN, open \in BOOLEAN, check \in BOOLEAN, met \in PrepareMets :
        /\ ~ctrl.closed
        /\ ctrl.n < MaxPrepares
        /\ ctrl.prepared => met.initErr = NoErr
        /\ ctrl.db => met.openErr = NoErr
        /\ ctrl' = prepare(ctrl, offline, open, check, met)
        /\ UNCHANGED <<status, delivery, equal, cmd, update, engine, keyinit, shell>>
        /\ UNCHANGED storeVars
        /\ UNCHANGED engineVars

CallCtrlEngineClose ==
    /\ ~ctrl.closed
    /\ ctrl' = CtrlEngineClose(ctrl)
    /\ UNCHANGED <<status, delivery, equal, cmd, update, engine, keyinit, shell>>
    /\ UNCHANGED storeVars
    /\ UNCHANGED engineVars

PrepareInit ==
    /\ StoreInit

PrepareNext ==
    \/ CallPrepare
    \/ CallCtrlEngineClose

SpecPrepare == PrepareInit /\ [][PrepareNext]_vars

\* C35: with --offline set, CtrlEngine.prepare never fetches configuration
\* from the network and never takes the wallet client online; when no stored
\* configuration exists, the stored one fails to initialize, or it is older
\* than FetchconfMaxDuration, prepare returns an error instead.
C35_Offline ==
    (ctrl.last.called /\ ctrl.last.offline) =>
        /\ ~ctrl.last.fetched
        /\ ~ctrl.last.wentOnline
        /\ (ctrl.last.openMsgDB /\ ctrl.last.config \in {"none", "init fails", "outdated"}) =>
                ctrl.last.err # NoErr

\* an offline prepare has opened the message DB, found a configuration older
\* than FetchconfMaxDuration, and returned the error for it without a fetch
C35_Witness ==
    /\ ctrl.last.called
    /\ ctrl.last.offline
    /\ ctrl.last.openMsgDB
    /\ ctrl.db
    /\ ctrl.last.config = "outdated"
    /\ ctrl.last.err = ErrOutdatedOffline
    /\ ~ctrl.last.fetched

\* C36: whenever CtrlEngine closes the message DB, every service guard client
\* that was started on that DB has been taken offline first, also after
\* prepare has started the wallet several times in one session; after Close
\* the engine holds no open message DB.
C36_ClientsOffline ==
    ctrl.closed => (ctrl.left = {} /\ ctrl.online = {} /\ ~ctrl.db)

====
